---- MODULE Spec2Model ----
(***************************************************************************)
(* A model of the streaming rosbag 2.0 decoder of lherman-cs/go-rosbag:    *)
(* the record framer and driver (Decoder.Read and its handlers), the       *)
(* header-field iterator, the connection registry, the record buffer pool  *)
(* and the message-definition parser that a Connection record feeds.       *)
(*                                                                         *)
(* Bytes are the integers 0..255 and byte strings are sequences of them.   *)
(* The primary byte source is fixed at Init; the decoder only ever moves   *)
(* a read position forward through it.                                     *)
(***************************************************************************)
EXTENDS Integers, Sequences, FiniteSets, TLC

(***************************************************************************)
(* Bounds of the model.                                                    *)
(***************************************************************************)
\* the number of outer records of a generated bag is at most MaxRecords
MaxRecords == 2
\* the number of records inside one generated chunk is at most MaxInner
MaxInner == 2
\* Read is called at most MaxReads times in one run
MaxReads == 4
\* the caller calls Close at most MaxCloses times in one run
MaxCloses == 2
\* the length of the strings and dynamic arrays of an encoded message
MaxLength == 2
\* a record is viewed at most MaxViews times
MaxViews == 2
\* the length of a piece of a header, and the value of its length field
MaxFieldLen == 3

(***************************************************************************)
(* Program constants.                                                      *)
(***************************************************************************)
lenInBytes == 4
headerFieldDelimiter == 61
initialRecordSize == 4096

OpInvalid == 0
OpMessageData == 2
OpBagHeader == 3
OpIndexData == 4
OpChunk == 5
OpChunkInfo == 6
OpConnection == 7

\* the supported version, Version{Major: 2, Minor: 0}
supportedVersion == [Major |-> 2, Minor |-> 0]

CompressionNone == <<110, 111, 110, 101>>
CompressionBZ2 == <<98, 122, 50>>
CompressionLZ4 == <<108, 122, 52>>

\* header keys, as the byte strings the accessors pass to findField
KeyOp == <<111, 112>>
KeyConn == <<99, 111, 110, 110>>
KeyCompression == <<99, 111, 109, 112, 114, 101, 115, 115, 105, 111, 110>>
KeyTopic == <<116, 111, 112, 105, 99>>
KeyType == <<116, 121, 112, 101>>
KeyMD5Sum == <<109, 100, 53, 115, 117, 109>>
KeyMessageDefinition ==
    <<109, 101, 115, 115, 97, 103, 101, 95, 100, 101, 102, 105, 110, 105, 116, 105, 111, 110>>

(***************************************************************************)
(* Byte-string helpers.                                                    *)
(***************************************************************************)
Min(a, b) == IF a < b THEN a ELSE b
Max(a, b) == IF a < b THEN b ELSE a

\* s[n:] and s[:n] of Go, for 0 <= n <= len(s)
Drop(s, n) == SubSeq(s, n + 1, Len(s))
Take(s, n) == SubSeq(s, 1, n)

\* bytes.IndexByte: the 0-based index of the first c in s, or -1
IndexByte(s, c) ==
    IF \E i \in 1..Len(s) : s[i] = c
    THEN (CHOOSE i \in 1..Len(s) : s[i] = c /\ \A j \in 1..(i - 1) : s[j] # c) - 1
    ELSE -1

\* bytes.LastIndexByte
LastIndexByte(s, c) ==
    IF \E i \in 1..Len(s) : s[i] = c
    THEN (CHOOSE i \in 1..Len(s) : s[i] = c /\ \A j \in (i + 1)..Len(s) : s[j] # c) - 1
    ELSE -1

\* binary.LittleEndian.Uint32 of the first four bytes of b
Uint32(b) == b[1] + 256 * b[2] + 65536 * b[3] + 16777216 * b[4]

\* binary.LittleEndian.PutUint32
PutUint32(n) ==
    <<n % 256, (n \div 256) % 256, (n \div 65536) % 256, (n \div 16777216) % 256>>

(***************************************************************************)
(* iterateHeaderFields.  The visitor is modelled by its trace: the fields  *)
(* handed to it, in order, up to the first malformed field, and the error  *)
(* that stops the walk there.  A visitor that asks to stop after a field   *)
(* reads only a prefix of this trace and never sees the error behind it.   *)
(***************************************************************************)
\* a walk that takes any '=' in the rest of the header for the delimiter of
\* the field
RECURSIVE iterateHeaderFields_AnyDelimiter(_)
iterateHeaderFields_AnyDelimiter(header) ==
    IF Len(header) = 0 THEN [fields |-> <<>>, err |-> "nil"]
    ELSE IF Len(header) < lenInBytes
    THEN [fields |-> <<>>, err |-> "missing header field length"]
    ELSE LET fieldLen == Uint32(header)
             rest == Drop(header, lenInBytes)
             i == IndexByte(rest, headerFieldDelimiter)
         IN  IF Len(rest) < fieldLen
             THEN [fields |-> <<>>, err |-> "expected header field len"]
             ELSE IF i = -1
             THEN [fields |-> <<>>, err |-> "invalid header field format"]
             ELSE LET more == iterateHeaderFields_AnyDelimiter(Drop(rest, fieldLen))
                  IN  [fields |-> <<[key |-> Take(rest, Min(i, fieldLen)),
                                     value |-> SubSeq(rest, i + 2, fieldLen)]>>
                                  \o more.fields,
                       err |-> more.err]

RECURSIVE iterateHeaderFields(_)
iterateHeaderFields(header) ==
    IF Len(header) = 0 THEN [fields |-> <<>>, err |-> "nil"]
    ELSE IF Len(header) < lenInBytes
    THEN [fields |-> <<>>, err |-> "missing header field length"]
    ELSE LET fieldLen == Uint32(header)
             rest == Drop(header, lenInBytes)
             i == IndexByte(rest, headerFieldDelimiter)
         IN  IF Len(rest) < fieldLen
             THEN [fields |-> <<>>, err |-> "expected header field len"]
             ELSE IF i = -1
             THEN [fields |-> <<>>, err |-> "invalid header field format"]
             ELSE IF fieldLen < i + 1
             THEN [fields |-> <<>>, err |-> "invalid header field len"]
             ELSE LET more == iterateHeaderFields(Drop(rest, fieldLen))
                  IN  [fields |-> <<[key |-> Take(rest, i),
                                     value |-> SubSeq(rest, i + 2, fieldLen)]>>
                                  \o more.fields,
                       err |-> more.err]

\* RecordBase.findField over a header: the value of the first field with the
\* key (the visitor stops there), else the walk's error, else "not found".
\* A found value is never nil, also when it is empty.
findField(header, key) ==
    LET it == iterateHeaderFields(header)
        hits == {i \in 1..Len(it.fields) : it.fields[i].key = key}
    IN  IF hits # {}
        THEN [value |-> it.fields[CHOOSE i \in hits : \A j \in hits : i <= j].value,
              err |-> "nil"]
        ELSE IF it.err # "nil" THEN [value |-> <<>>, err |-> it.err]
        ELSE [value |-> <<>>, err |-> "field doesn't exist"]

\* RecordBase.findFieldUint32: endian.Uint32 panics on a value shorter than 4
findFieldUint32(header, key) ==
    LET f == findField(header, key)
    IN  IF f.err # "nil" THEN [v |-> 0, err |-> f.err]
        ELSE IF Len(f.value) < 4 THEN [v |-> 0, err |-> "panic"]
        ELSE [v |-> Uint32(f.value), err |-> "nil"]

\* RecordBase.Op: value[0] panics on an empty value
Op(header) ==
    LET f == findField(header, KeyOp)
    IN  IF f.err # "nil" THEN [op |-> OpInvalid, err |-> f.err]
        ELSE IF Len(f.value) = 0 THEN [op |-> OpInvalid, err |-> "panic"]
        ELSE [op |-> f.value[1], err |-> "nil"]

(***************************************************************************)
(* The message-definition parser, MessageDefinition.unmarshall.            *)
(*                                                                         *)
(* A MessageDefinition is modelled with its nested definitions: the        *)
(* sequence msgs is the parser's complexMsgs, msgs[1] being the primary    *)
(* definition.  The MsgType pointer of a field is an index into msgs, or   *)
(* 0 for the nil pointer.                                                  *)
(***************************************************************************)
messageFieldTypeMap ==
    [k \in {<<98, 111, 111, 108>>, <<105, 110, 116, 56>>, <<98, 121, 116, 101>>,
            <<117, 105, 110, 116, 56>>, <<99, 104, 97, 114>>, <<105, 110, 116, 49, 54>>,
            <<117, 105, 110, 116, 49, 54>>, <<105, 110, 116, 51, 50>>,
            <<117, 105, 110, 116, 51, 50>>, <<105, 110, 116, 54, 52>>,
            <<117, 105, 110, 116, 54, 52>>, <<102, 108, 111, 97, 116, 51, 50>>,
            <<102, 108, 111, 97, 116, 54, 52>>, <<115, 116, 114, 105, 110, 103>>,
            <<116, 105, 109, 101>>, <<100, 117, 114, 97, 116, 105, 111, 110>>} |->
        CASE k = <<98, 111, 111, 108>> -> "Bool"
          [] k = <<105, 110, 116, 56>> -> "Int8"
          [] k = <<98, 121, 116, 101>> -> "Int8"
          [] k = <<117, 105, 110, 116, 56>> -> "Uint8"
          [] k = <<99, 104, 97, 114>> -> "Uint8"
          [] k = <<105, 110, 116, 49, 54>> -> "Int16"
          [] k = <<117, 105, 110, 116, 49, 54>> -> "Uint16"
          [] k = <<105, 110, 116, 51, 50>> -> "Int32"
          [] k = <<117, 105, 110, 116, 51, 50>> -> "Uint32"
          [] k = <<105, 110, 116, 54, 52>> -> "Int64"
          [] k = <<117, 105, 110, 116, 54, 52>> -> "Uint64"
          [] k = <<102, 108, 111, 97, 116, 51, 50>> -> "Float32"
          [] k = <<102, 108, 111, 97, 116, 54, 52>> -> "Float64"
          [] k = <<115, 116, 114, 105, 110, 103>> -> "String"
          [] k = <<116, 105, 109, 101>> -> "Time"
          [] k = <<100, 117, 114, 97, 116, 105, 111, 110>> -> "Duration"]

\* the white space bytes.TrimSpace removes from a byte string of ASCII text
IsSpace(c) == c \in {9, 10, 11, 12, 13, 32}

IsDigit(c) == c \in 48..57

RECURSIVE TrimLeft(_)
TrimLeft(s) == IF Len(s) > 0 /\ IsSpace(s[1]) THEN TrimLeft(Tail(s)) ELSE s

RECURSIVE TrimRight(_)
TrimRight(s) ==
    IF Len(s) > 0 /\ IsSpace(s[Len(s)]) THEN TrimRight(Take(s, Len(s) - 1)) ELSE s

TrimSpace(s) == TrimRight(TrimLeft(s))

\* bytes.Split(b, "\n")
RECURSIVE SplitLines(_)
SplitLines(b) ==
    LET i == IndexByte(b, 10)
    IN  IF i = -1 THEN <<b>> ELSE <<Take(b, i)>> \o SplitLines(Drop(b, i + 1))

\* strings.HasSuffix
HasSuffix(s, suffix) ==
    Len(suffix) <= Len(s) /\ SubSeq(s, Len(s) - Len(suffix) + 1, Len(s)) = suffix

\* A decimal numeral is kept as its sign and its digits without leading
\* zeros, so that values of every width are compared without overflow.
RECURSIVE StripZeros(_)
StripZeros(d) == IF Len(d) > 1 /\ d[1] = 48 THEN StripZeros(Tail(d)) ELSE d

\* a < b for two digit strings without leading zeros
RECURSIVE DigitsLess(_, _)
DigitsLess(a, b) ==
    IF Len(a) # Len(b) THEN Len(a) < Len(b)
    ELSE IF Len(a) = 0 THEN FALSE
    ELSE IF a[1] # b[1] THEN a[1] < b[1]
    ELSE DigitsLess(Tail(a), Tail(b))

\* the digits of 2^(bitSize-1) and of 2^bitSize
PowDigits(bits) ==
    CASE bits = 7 -> <<49, 50, 56>>
      [] bits = 8 -> <<50, 53, 54>>
      [] bits = 15 -> <<51, 50, 55, 54, 56>>
      [] bits = 16 -> <<54, 53, 53, 51, 54>>
      [] bits = 31 -> <<50, 49, 52, 55, 52, 56, 51, 54, 52, 56>>
      [] bits = 32 -> <<52, 50, 57, 52, 57, 54, 55, 50, 57, 54>>
      [] bits = 63 -> <<57, 50, 50, 51, 51, 55, 50, 48, 51, 54, 56, 53, 52, 55, 55, 53, 56, 48, 56>>
      [] bits = 64 -> <<49, 56, 52, 52, 54, 55, 52, 52, 48, 55, 51, 55, 48, 57, 53, 53, 49, 54, 49, 54>>

\* strconv.ParseUint(s, 10, bitSize): a syntax error yields 0, a range error
\* the largest value of the width
ParseUint(s, bitSize) ==
    IF Len(s) = 0 \/ \E i \in 1..Len(s) : ~IsDigit(s[i])
    THEN [neg |-> FALSE, digits |-> <<48>>, max |-> FALSE, err |-> "ErrSyntax"]
    ELSE IF ~DigitsLess(StripZeros(s), PowDigits(bitSize))
    THEN [neg |-> FALSE, digits |-> PowDigits(bitSize), max |-> TRUE, err |-> "ErrRange"]
    ELSE [neg |-> FALSE, digits |-> StripZeros(s), max |-> FALSE, err |-> "nil"]

\* strconv.ParseInt(s, 10, bitSize): an optional sign, then ParseUint; a
\* range error yields the nearest bound of the width (max marks the clamp).
\* ParseSigned is given the sign, the digits without leading zeros and the
\* digits of 2^(bitSize-1).
ParseSigned(neg, d, cut) ==
    IF ~neg /\ ~DigitsLess(d, cut)
    THEN [neg |-> FALSE, digits |-> cut, max |-> TRUE, err |-> "ErrRange"]
    ELSE IF neg /\ DigitsLess(cut, d)
    THEN [neg |-> TRUE, digits |-> cut, max |-> TRUE, err |-> "ErrRange"]
    ELSE [neg |-> neg /\ d # <<48>>, digits |-> d, max |-> FALSE, err |-> "nil"]

ParseDigits(neg, body, bitSize) ==
    IF Len(body) = 0 \/ \E i \in 1..Len(body) : ~IsDigit(body[i])
    THEN [neg |-> FALSE, digits |-> <<48>>, max |-> FALSE, err |-> "ErrSyntax"]
    ELSE ParseSigned(neg, StripZeros(body), PowDigits(bitSize - 1))

ParseInt(s, bitSize) ==
    IF Len(s) > 0 /\ s[1] \in {43, 45}
    THEN ParseDigits(s[1] = 45, Tail(s), bitSize)
    ELSE ParseDigits(FALSE, s, bitSize)

\* strconv.Atoi, for the fixed array sizes the model reads (below 10^9)
RECURSIVE DigitsValue(_)
DigitsValue(d) ==
    IF Len(d) = 0 THEN 0 ELSE 10 * DigitsValue(Take(d, Len(d) - 1)) + (d[Len(d)] - 48)

IntOf(p) ==
    IF p.err # "nil" THEN [v |-> 0, err |-> p.err]
    ELSE [v |-> IF p.neg THEN 0 - DigitsValue(p.digits) ELSE DigitsValue(p.digits),
          err |-> "nil"]

Atoi(s) == IntOf(ParseInt(s, 64))

\* strconv.ParseBool
ParseBool(s) ==
    IF s \in {<<49>>, <<116>>, <<84>>, <<84, 82, 85, 69>>, <<116, 114, 117, 101>>,
              <<84, 114, 117, 101>>}
    THEN [b |-> TRUE, err |-> "nil"]
    ELSE IF s \in {<<48>>, <<102>>, <<70>>, <<70, 65, 76, 83, 69>>,
                   <<102, 97, 108, 115, 101>>, <<70, 97, 108, 115, 101>>}
    THEN [b |-> FALSE, err |-> "nil"]
    ELSE [b |-> FALSE, err |-> "ErrSyntax"]

\* strconv.ParseFloat, reduced to the decimal syntax [sign]digits[.digits];
\* the value is kept as its text
FloatSyntax(body) ==
    /\ Len(body) > 0
    /\ Cardinality({i \in 1..Len(body) : body[i] = 46}) <= 1
    /\ \A i \in 1..Len(body) : IsDigit(body[i]) \/ body[i] = 46
    /\ \E i \in 1..Len(body) : IsDigit(body[i])

ParseFloat(s) ==
    IF FloatSyntax(IF Len(s) > 0 /\ s[1] \in {43, 45} THEN Tail(s) ELSE s)
    THEN [text |-> s, err |-> "nil"]
    ELSE [text |-> <<48>>, err |-> "ErrSyntax"]

NilValue == [nil |-> TRUE]

\* the bitSize that decodeConstValue passes for an integer type
BitSize(fieldType) ==
    CASE fieldType \in {"Int8", "Uint8"} -> 8
      [] fieldType \in {"Int16", "Uint16"} -> 16
      [] fieldType \in {"Int32", "Uint32"} -> 32
      [] fieldType \in {"Int64", "Uint64"} -> 64

BoolValue(p) == [v |-> [nil |-> FALSE, kind |-> "bool", b |-> p.b], err |-> p.err]

IntValue(fieldType, p) ==
    [v |-> [nil |-> FALSE, kind |-> fieldType, neg |-> p.neg, digits |-> p.digits,
            max |-> p.max],
     err |-> p.err]

FloatValue(fieldType, p) ==
    [v |-> [nil |-> FALSE, kind |-> fieldType, text |-> p.text], err |-> p.err]

\* decodeConstValue: the interface value returned (never nil for a builtin
\* kind other than time and duration, also when err is set) and the error
decodeConstValue(fieldType, raw) ==
    CASE fieldType = "Bool" -> BoolValue(ParseBool(raw))
      [] fieldType \in {"Int8", "Int16", "Int32", "Int64"} ->
            IntValue(fieldType, ParseInt(raw, BitSize(fieldType)))
      [] fieldType \in {"Uint8", "Uint16", "Uint32", "Uint64"} ->
            IntValue(fieldType, ParseUint(raw, BitSize(fieldType)))
      [] fieldType \in {"Float32", "Float64"} -> FloatValue(fieldType, ParseFloat(raw))
      [] fieldType = "String" ->
            [v |-> [nil |-> FALSE, kind |-> "string", text |-> raw], err |-> "nil"]
      [] OTHER -> [v |-> NilValue, err |-> "errInvalidConstType"]

\* findComplexMsg: the index of the first definition whose Type has msgType
\* as a suffix, 0 for nil
findComplexMsg(complexMsgs, msgType) ==
    LET hits == {i \in 1..Len(complexMsgs) : HasSuffix(complexMsgs[i].Type, msgType)}
    IN  IF hits = {} THEN 0 ELSE CHOOSE i \in hits : \A j \in hits : i <= j

\* the zero MessageDefinition of a fresh ConnectionHeader
EmptyDefinition == [msgs |-> <<[Type |-> <<>>, Fields |-> <<>>]>>]

\* One line of the definition text, in the stages of the loop body.
\* acc.scope lists, as indices into acc.msgs, the complexMsgs of this call;
\* acc.unresolved is the unresolvedFields map: (definition, field) |-> type
\* token.
\* the field is appended to the last of complexMsgs
AppendField(acc, m, fieldType, fieldDef) ==
    [acc EXCEPT
        !.msgs[m].Fields = Append(@, fieldDef),
        !.unresolved =
            IF fieldDef.Type = "Complex"
            THEN Append(@, [m |-> m, f |-> Len(acc.msgs[m].Fields) + 1, type |-> fieldType])
            ELSE @]

\* the field definition: a constant is detected by the '=' at eq
FieldDef(acc, fieldType, msgFieldType, fieldName, eq, isArray, arraySize) ==
    AppendField(acc, acc.scope[Len(acc.scope)], fieldType,
                [Type |-> msgFieldType,
                 Name |-> IF eq # -1 THEN TrimSpace(Take(fieldName, eq)) ELSE fieldName,
                 IsArray |-> isArray,
                 ArraySize |-> arraySize,
                 Value |-> IF eq # -1
                           THEN decodeConstValue(msgFieldType,
                                                 TrimSpace(Drop(fieldName, eq + 1))).v
                           ELSE NilValue,
                 MsgType |-> 0])

FieldOfType(acc, fieldType, fieldName, isArray, size) ==
    IF size.err # "nil" THEN [acc EXCEPT !.err = size.err]
    ELSE FieldDef(acc, fieldType,
                  IF fieldType \in DOMAIN messageFieldTypeMap
                  THEN messageFieldTypeMap[fieldType] ELSE "Complex",
                  fieldName, IndexByte(fieldName, 61), isArray, size.v)

\* an array type: off is the index of ']' counted from the '[' at br
ArrayField(acc, fieldType, fieldName, br, off) ==
    FieldOfType(acc, Take(fieldType, br), fieldName, TRUE,
                IF off > 1 THEN Atoi(SubSeq(fieldType, br + 2, br + off))
                ELSE [v |-> -1, err |-> "nil"])

TypedField(acc, fieldType, fieldName, br) ==
    IF br # -1
    THEN ArrayField(acc, fieldType, fieldName, br, IndexByte(Drop(fieldType, br), 93))
    ELSE FieldOfType(acc, fieldType, fieldName, FALSE, [v |-> -1, err |-> "nil"])

\* a field line; without a space line[:idx] is line[:-1], a panic
FieldLine(acc, line, sp) ==
    IF sp = -1 THEN [acc EXCEPT !.err = "panic"]
    ELSE TypedField(acc, Take(line, sp), TrimSpace(Drop(line, sp + 1)),
                    IndexByte(Take(line, sp), 91))

StrippedLine(acc, line) ==
    IF Len(line) = 0 THEN acc
    ELSE IF line[1] = 61 THEN acc
    ELSE IF IndexByte(line, 58) # -1
    THEN [acc EXCEPT !.msgs = Append(@, [Type |-> Drop(line, LastIndexByte(line, 32) + 1),
                                         Fields |-> <<>>]),
                     !.scope = Append(@, Len(acc.msgs) + 1)]
    ELSE FieldLine(acc, line, IndexByte(line, 32))

CutComment(rawLine, hash) == IF hash # -1 THEN Take(rawLine, hash) ELSE rawLine

unmarshallLine(acc, rawLine) ==
    StrippedLine(acc, TrimSpace(CutComment(rawLine, IndexByte(rawLine, 35))))

RECURSIVE unmarshallLines(_, _)
unmarshallLines(acc, lines) ==
    IF Len(lines) = 0 \/ acc.err # "nil" THEN acc
    ELSE unmarshallLines(unmarshallLine(acc, Head(lines)), Tail(lines))

\* the definitions of this call, complexMsgs
ComplexMsgs(msgs, scope) == [k \in 1..Len(scope) |-> msgs[scope[k]]]

\* the msgs with the MsgType of the unresolved fields listed in S bound
RECURSIVE Resolve(_, _, _, _)
RECURSIVE ResolveOne(_, _, _, _, _)
Resolve(msgs, scope, unresolved, S) ==
    IF S = {} THEN msgs
    ELSE ResolveOne(msgs, scope, unresolved, S, CHOOSE j \in S : TRUE)

ResolveOne(msgs, scope, unresolved, S, i) ==
    Resolve([msgs EXCEPT ![unresolved[i].m].Fields[unresolved[i].f].MsgType =
                            scope[findComplexMsg(ComplexMsgs(msgs, scope),
                                                 unresolved[i].type)]],
            scope, unresolved, S \ {i})

\* the second loop of unmarshall.  The fields to resolve are walked in the
\* order of a Go map, which is not fixed: when some field cannot be resolved
\* the call returns errUnresolvedMsgType having bound any subset of the
\* resolvable fields (ok).
ResolveFields(acc, all, ok) ==
    IF ok = all
    THEN {[def |-> [msgs |-> Resolve(acc.msgs, acc.scope, acc.unresolved, all)],
           err |-> "nil"]}
    ELSE {[def |-> [msgs |-> Resolve(acc.msgs, acc.scope, acc.unresolved, S)],
           err |-> "errUnresolvedMsgType"] : S \in SUBSET ok}

Unresolved(acc) ==
    ResolveFields(acc, 1..Len(acc.unresolved),
                  {i \in 1..Len(acc.unresolved) :
                      findComplexMsg(ComplexMsgs(acc.msgs, acc.scope),
                                     acc.unresolved[i].type) # 0})

Parsed(acc) ==
    IF acc.err # "nil" THEN {[def |-> [msgs |-> acc.msgs], err |-> acc.err]}
    ELSE Unresolved(acc)

\* MessageDefinition.unmarshall, as the set of its possible results
\* [def, err]
unmarshall(def, b) ==
    Parsed(unmarshallLines([msgs |-> def.msgs, scope |-> <<1>>,
                            unresolved |-> <<>>, err |-> "nil"],
                           SplitLines(b)))

(***************************************************************************)
(* The values of the message decoder.  A Go type is its reflect.Kind, its  *)
(* name (two types are identical when their names are), the element type   *)
(* of a slice and the fields of a struct, each with its rosbag tag.  A     *)
(* value is a type and a payload: a boolean, a number, the bytes of a      *)
(* string, the values of a slice, the field values of a struct, the        *)
(* entries of a map keyed by field name.  A 64-bit number is kept as its   *)
(* low and high words, a float as its bits, a time and a duration as       *)
(* (sec, nsec) with nsec below one second.                                 *)
(***************************************************************************)
GoType(kind, name, elem, fields) ==
    [kind |-> kind, name |-> name, elem |-> elem, fields |-> fields]

Value(type, v) == [type |-> type, v |-> v]

\* the Go type of the value a decoder of fieldDecodeBasicHelper returns
BasicType(fieldType) ==
    CASE fieldType = "Bool" -> GoType("Bool", "bool", <<>>, <<>>)
      [] fieldType = "Int8" -> GoType("Int8", "int8", <<>>, <<>>)
      [] fieldType = "Uint8" -> GoType("Uint8", "uint8", <<>>, <<>>)
      [] fieldType = "Int16" -> GoType("Int16", "int16", <<>>, <<>>)
      [] fieldType = "Uint16" -> GoType("Uint16", "uint16", <<>>, <<>>)
      [] fieldType = "Int32" -> GoType("Int32", "int32", <<>>, <<>>)
      [] fieldType = "Uint32" -> GoType("Uint32", "uint32", <<>>, <<>>)
      [] fieldType = "Int64" -> GoType("Int64", "int64", <<>>, <<>>)
      [] fieldType = "Uint64" -> GoType("Uint64", "uint64", <<>>, <<>>)
      [] fieldType = "Float32" -> GoType("Float32", "float32", <<>>, <<>>)
      [] fieldType = "Float64" -> GoType("Float64", "float64", <<>>, <<>>)
      [] fieldType = "String" -> GoType("String", "string", <<>>, <<>>)
      [] fieldType = "Time" -> GoType("Struct", "time.Time", <<>>, <<>>)
      [] fieldType = "Duration" -> GoType("Int64", "time.Duration", <<>>, <<>>)

SliceOf(type) == GoType("Slice", "[]" \o type.name, <<type>>, <<>>)

\* map[string]interface{}
MapType == GoType("Map", "map[string]interface {}", <<>>, <<>>)

\* the nil interface value
NilInterface == Value(GoType("Invalid", "nil", <<>>, <<>>), 0)

\* reflect.Zero: the payload of the zero value of a type (the zero time is
\* kept as (-1, -1))
RECURSIVE Zero(_)
Zero(type) ==
    CASE type.kind = "Bool" -> FALSE
      [] type.kind \in {"String", "Slice", "Map"} -> <<>>
      [] type.kind \in {"Int64", "Uint64", "Float64"} -> <<0, 0>>
      [] type.name = "time.Time" -> <<-1, -1>>
      [] type.kind = "Struct" ->
            [i \in 1..Len(type.fields) |->
                Value(type.fields[i].type, Zero(type.fields[i].type))]
      [] OTHER -> 0

(***************************************************************************)
(* type_decoder.go: the decoders of the builtin types.  A decoder returns  *)
(* (v, off, ok); panic marks a call that does not return.                  *)
(***************************************************************************)
Decoded(v, off, ok) == [v |-> v, off |-> off, ok |-> ok, panic |-> FALSE]
Panicked == [v |-> NilInterface, off |-> 0, ok |-> FALSE, panic |-> TRUE]

\* endian.Uint16, and the conversions to the signed types
Uint16(b) == b[1] + 256 * b[2]
Int8(b) == IF b[1] >= 128 THEN b[1] - 256 ELSE b[1]
Int16(b) == IF b[2] >= 128 THEN Uint16(b) - 65536 ELSE Uint16(b)
Int32(b) == b[1] + 256 * b[2] + 65536 * b[3] + 16777216 * Int8(<<b[4]>>)
\* endian.Uint64, as the low and the high word
Uint64(b) == <<Uint32(b), Uint32(Drop(b, 4))>>

\* time.Unix(sec, nsec) and time.Duration(sec)*time.Second + nsec: a nsec of
\* a second or more carries into sec
extractTime(raw) ==
    <<Uint32(raw) + (Uint32(Drop(raw, 4)) \div 1000000000),
      Uint32(Drop(raw, 4)) % 1000000000>>

extractDuration(raw) ==
    <<Uint32(raw) + (Uint32(Drop(raw, 4)) \div 1000000000),
      Uint32(Drop(raw, 4)) % 1000000000>>

\* the off of the decoder of a fixed-width type
Width(fieldType) ==
    CASE fieldType \in {"Bool", "Int8", "Uint8"} -> 1
      [] fieldType \in {"Int16", "Uint16"} -> 2
      [] fieldType \in {"Int32", "Uint32", "Float32"} -> 4
      [] fieldType \in {"Int64", "Uint64", "Float64", "Time", "Duration"} -> 8

\* the value a fixed-width decoder reads from the front of raw
Scalar(fieldType, raw) ==
    CASE fieldType = "Bool" -> raw[1] # 0
      [] fieldType = "Int8" -> Int8(raw)
      [] fieldType = "Uint8" -> raw[1]
      [] fieldType = "Int16" -> Int16(raw)
      [] fieldType = "Uint16" -> Uint16(raw)
      [] fieldType = "Int32" -> Int32(raw)
      [] fieldType \in {"Uint32", "Float32"} -> Uint32(raw)
      [] fieldType \in {"Int64", "Uint64", "Float64"} -> Uint64(raw)
      [] fieldType = "Time" -> extractTime(raw)
      [] fieldType = "Duration" -> extractDuration(raw)

\* a fieldDecodeLength that leaves the length prefix of a dynamic array in
\* the bytes to decode
fieldDecodeLength_KeepPrefix(raw, fixedLength) ==
    IF fixedLength >= 0 THEN [length |-> fixedLength, off |-> 0, ok |-> TRUE]
    ELSE IF Len(raw) < lenInBytes THEN [length |-> 0, off |-> 0, ok |-> FALSE]
    ELSE [length |-> Uint32(raw), off |-> 0, ok |-> TRUE]

fieldDecodeLength(raw, fixedLength) ==
    IF fixedLength >= 0 THEN [length |-> fixedLength, off |-> 0, ok |-> TRUE]
    ELSE IF Len(raw) < lenInBytes THEN [length |-> 0, off |-> 0, ok |-> FALSE]
    ELSE IF Len(raw) < lenInBytes + Uint32(raw)
    THEN [length |-> Uint32(raw), off |-> 0, ok |-> FALSE]
    ELSE [length |-> Uint32(raw), off |-> lenInBytes, ok |-> TRUE]

\* fieldDecodeString after its call of fieldDecodeLength, l
StringOfLength(raw, l) ==
    IF ~l.ok THEN Decoded(NilInterface, l.off, FALSE)
    ELSE IF l.length = 0 THEN Decoded(Value(BasicType("String"), <<>>), l.off, TRUE)
    ELSE IF Len(raw) - l.off < l.length THEN Decoded(NilInterface, l.off, FALSE)
    ELSE Decoded(Value(BasicType("String"), SubSeq(raw, l.off + 1, l.off + l.length)),
                 l.off + l.length, TRUE)

fieldDecodeString(raw, length) == StringOfLength(raw, fieldDecodeLength(raw, length))

\* fieldDecodeBasicHelper[fieldType](raw, length)
fieldDecodeBasicHelper(fieldType, raw, length) ==
    IF fieldType = "String" THEN fieldDecodeString(raw, length)
    ELSE IF Len(raw) < Width(fieldType)
    THEN Decoded(NilInterface, Width(fieldType), FALSE)
    ELSE Decoded(Value(BasicType(fieldType), Scalar(fieldType, raw)),
                 Width(fieldType), TRUE)

\* the elements of a slice of a fixed-width type laid out in raw from off
Elements(fieldType, raw, off, length) ==
    [i \in 1..length |->
        Value(BasicType(fieldType),
              Scalar(fieldType, Drop(raw, off + (i - 1) * Width(fieldType))))]

\* fieldDecodeBasicSlice after its call of fieldDecodeLength, l: the slice
\* header is pointed at raw[off:] once length*size bytes are known to be
\* there, and stays nil otherwise
BasicSliceOfLength(fieldType, raw, l) ==
    IF ~l.ok THEN Decoded(Value(SliceOf(BasicType(fieldType)), <<>>), l.off, FALSE)
    ELSE IF l.length = 0
    THEN Decoded(Value(SliceOf(BasicType(fieldType)), <<>>), l.off, TRUE)
    ELSE IF Len(raw) - l.off < l.length * Width(fieldType)
    THEN Decoded(Value(SliceOf(BasicType(fieldType)), <<>>), l.off, FALSE)
    ELSE Decoded(Value(SliceOf(BasicType(fieldType)),
                       Elements(fieldType, raw, l.off, l.length)),
                 l.off + l.length * Width(fieldType), TRUE)

fieldDecodeBasicSlice(fieldType, raw, length) ==
    BasicSliceOfLength(fieldType, raw, fieldDecodeLength(raw, length))

\* fieldDecodeInt16SliceSlow and its siblings after fieldDecodeLength: the
\* loop reads each element with endian.UintN(raw[off:]), which panics when
\* fewer than N/8 bytes are left; ok is the one fieldDecodeLength returned
SlowSliceOfLength(fieldType, raw, l) ==
    IF ~l.ok THEN Decoded(NilInterface, l.off, FALSE)
    ELSE IF Len(raw) - l.off < l.length * Width(fieldType) THEN Panicked
    ELSE Decoded(Value(SliceOf(BasicType(fieldType)),
                       Elements(fieldType, raw, l.off, l.length)),
                 l.off + l.length * Width(fieldType), TRUE)

fieldDecodeSliceSlow(fieldType, raw, length) ==
    SlowSliceOfLength(fieldType, raw, fieldDecodeLength(raw, length))

\* the loops of fieldDecodeStringSlice, fieldDecodeTimeSlice and
\* fieldDecodeDurationSlice: s holds the elements decoded so far, totalOff
\* the offset of the next one
RECURSIVE ElementLoop(_, _, _, _, _)
ElementStep(fieldType, raw, s, totalOff, length, e) ==
    IF ~e.ok THEN Decoded(e.v, 0, FALSE)
    ELSE ElementLoop(fieldType, raw, Append(s, e.v), totalOff + e.off, length)

ElementLoop(fieldType, raw, s, totalOff, length) ==
    IF Len(s) >= length
    THEN Decoded(Value(SliceOf(BasicType(fieldType)), s), totalOff, TRUE)
    ELSE ElementStep(fieldType, raw, s, totalOff, length,
                     fieldDecodeBasicHelper(fieldType, Drop(raw, totalOff), -1))

ElementSliceOfLength(fieldType, raw, l) ==
    IF ~l.ok THEN Decoded(NilInterface, l.off, FALSE)
    ELSE ElementLoop(fieldType, raw, <<>>, l.off, l.length)

\* fieldDecodeSliceHelper[fieldType](raw, length), as initFieldSliceDecoder
\* fills the table for fastMode
fieldDecodeSliceHelper(fastMode, fieldType, raw, length) ==
    IF fieldType \in {"String", "Time", "Duration"}
    THEN ElementSliceOfLength(fieldType, raw, fieldDecodeLength(raw, length))
    ELSE IF fastMode \/ fieldType \in {"Bool", "Int8", "Uint8"}
    THEN fieldDecodeBasicSlice(fieldType, raw, length)
    ELSE fieldDecodeSliceSlow(fieldType, raw, length)

(***************************************************************************)
(* message.go: decodeMessageData.  A definition is an index d into msgs,   *)
(* the data is the value behind the interface (ptr tells that it was       *)
(* passed as a pointer), and the result is the remaining bytes, the error  *)
(* and the data as the call leaves it.  The struct targets of the model    *)
(* are passed by pointer and have exported fields, as ViewAs documents.    *)
(***************************************************************************)
DecodeResult(raw, err, data) == [raw |-> raw, err |-> err, data |-> data]

\* createFieldMapper: the tag of each struct field (the tests tag every
\* field) to the index of the field; a later field replaces an earlier one
\* of the same tag
createFieldMapper(structType) ==
    [k \in {structType.fields[i].tag : i \in 1..Len(structType.fields)} |->
        CHOOSE i \in 1..Len(structType.fields) :
            /\ structType.fields[i].tag = k
            /\ \A j \in 1..Len(structType.fields) :
                    structType.fields[j].tag = k => j <= i]

\* the Go value of a constant of the definition
ConstValue(fieldType, value) ==
    Value(BasicType(fieldType), value)

\* setFn of the map target
SetMap(data, k, v) ==
    DecodeResult(<<>>, "nil",
                 Value(data.type, [n \in DOMAIN data.v \cup {k} |->
                                        IF n = k THEN v ELSE data.v[n]]))

\* setFn of the struct target: only the kinds are compared before
\* reflect.Value.Set, which panics on a value that is not assignable to the
\* field's type
SetStruct(data, k, v, mapper) ==
    IF k \notin DOMAIN mapper THEN DecodeResult(<<>>, "nil", data)
    ELSE IF v.type.kind # data.type.fields[mapper[k]].type.kind
    THEN DecodeResult(<<>>, "message field is of another kind", data)
    ELSE IF v.type.name # data.type.fields[mapper[k]].type.name
    THEN DecodeResult(<<>>, "panic", data)
    ELSE DecodeResult(<<>>, "nil", Value(data.type, [data.v EXCEPT ![mapper[k]] = v]))

setFn(data, k, v) ==
    IF data.type.kind = "Map" THEN SetMap(data, k, v)
    ELSE SetStruct(data, k, v, createFieldMapper(data.type))

\* a getFn without the dummy map for a name that the struct does not have
getFn_NoDummy(data, k) ==
    IF data.type.kind = "Map"
    THEN [v |-> Value(MapType, <<>>), canAddr |-> FALSE]
    ELSE IF k \notin DOMAIN createFieldMapper(data.type)
    THEN [v |-> NilInterface, canAddr |-> FALSE]
    ELSE [v |-> data.v[createFieldMapper(data.type)[k]], canAddr |-> TRUE]

\* getFn, with CanAddr of the value it returns
getFn(data, k) ==
    IF data.type.kind = "Map" \/ k \notin DOMAIN createFieldMapper(data.type)
    THEN [v |-> Value(MapType, <<>>), canAddr |-> FALSE]
    ELSE [v |-> data.v[createFieldMapper(data.type)[k]], canAddr |-> TRUE]

getFieldTypeFn(data, k) ==
    IF data.type.kind = "Map" \/ k \notin DOMAIN createFieldMapper(data.type)
    THEN SliceOf(MapType)
    ELSE data.type.fields[createFieldMapper(data.type)[k]].type

\* decodeFieldBasic
decodeFieldBasic(fastMode, field, raw) ==
    IF field.IsArray
    THEN fieldDecodeSliceHelper(fastMode, field.Type, raw, field.ArraySize)
    ELSE fieldDecodeBasicHelper(field.Type, raw, field.ArraySize)

RECURSIVE decodeMessageData(_, _, _, _, _, _)
RECURSIVE decodeFields(_, _, _, _, _)
RECURSIVE decodeElements(_, _, _, _, _, _)
RECURSIVE ElementDecoded(_, _, _, _, _, _, _)

\* the end of a loop body: err of the decoding is tested, then setFn is
\* called on the data as it is and on the bytes left
SetField(st, k, v, raw, err) ==
    IF err # "nil" THEN DecodeResult(<<>>, err, st.data)
    ELSE [setFn(st.data, k, v) EXCEPT !.raw = raw]

\* a field of a builtin type
BasicField(st, field, r) ==
    IF r.panic THEN DecodeResult(<<>>, "panic", st.data)
    ELSE IF ~r.ok THEN DecodeResult(<<>>, "errInvalidFormat", st.data)
    ELSE SetField(st, field.Name, r.v, Drop(st.raw, r.off), "nil")

\* a nested decoding whose result does not reach the struct field
InPlace_Discard(st, field, r) ==
    IF r.err # "nil" THEN DecodeResult(<<>>, r.err, st.data)
    ELSE DecodeResult(r.raw, "nil", st.data)

\* a complex field decoded in place, into the addressable struct field
InPlace(st, field, r) ==
    IF r.err # "nil" THEN DecodeResult(<<>>, r.err, st.data)
    ELSE DecodeResult(r.raw, "nil",
                      Value(st.data.type,
                            [st.data.v EXCEPT ![createFieldMapper(st.data.type)[field.Name]]
                                                   = r.data]))

\* a complex field decoded into the map that getFn made
IntoMap(st, field, r) == SetField(st, field.Name, r.data, r.raw, r.err)

\* decodeFieldComplexSlice after fieldDecodeLength and reflect.MakeSlice,
\* which panics on a type that is no slice: the loop over the elements, vs
\* the elements decoded so far.  An element of kind map is decoded as a new
\* map, any other through its address.
ElementDecoded(fastMode, msgs, field, raw, elemType, vs, r) ==
    IF r.err # "nil" THEN DecodeResult(raw, r.err, vs)
    ELSE decodeElements(fastMode, msgs, field, r.raw, elemType, Append(vs, r.data))

decodeElements(fastMode, msgs, field, raw, elemType, vs) ==
    IF Len(vs) >= field.length
    THEN DecodeResult(raw, "nil", vs)
    ELSE ElementDecoded(fastMode, msgs, field, raw, elemType, vs,
                        decodeMessageData(fastMode, msgs, field.MsgType, raw,
                                          Value(elemType, Zero(elemType)),
                                          elemType.kind # "Map"))

ComplexSliceOfLength(fastMode, msgs, field, raw, fieldType, l) ==
    IF ~l.ok THEN DecodeResult(raw, "errInvalidFormat", <<>>)
    ELSE IF fieldType.kind # "Slice" THEN DecodeResult(raw, "panic", <<>>)
    ELSE decodeElements(fastMode, msgs, [MsgType |-> field.MsgType, length |-> l.length],
                        Drop(raw, l.off), fieldType.elem[1], <<>>)

decodeFieldComplexSlice(fastMode, msgs, field, raw, fieldType) ==
    ComplexSliceOfLength(fastMode, msgs, field, raw, fieldType,
                         fieldDecodeLength(raw, field.ArraySize))

ComplexSlice(st, field, fieldType, r) ==
    SetField(st, field.Name, Value(fieldType, r.data), r.raw, r.err)

\* a loop body that decodes a constant from the bytes like any other field
decodeField_ConstDecoded(fastMode, msgs, field, st) ==
    IF field.Type # "Complex"
    THEN BasicField(st, field, decodeFieldBasic(fastMode, field, st.raw))
    ELSE IF field.IsArray
    THEN ComplexSlice(st, field, getFieldTypeFn(st.data, field.Name),
                      decodeFieldComplexSlice(fastMode, msgs, field, st.raw,
                                              getFieldTypeFn(st.data, field.Name)))
    ELSE IF getFn(st.data, field.Name).canAddr
    THEN InPlace(st, field,
                 decodeMessageData(fastMode, msgs, field.MsgType, st.raw,
                                   getFn(st.data, field.Name).v, TRUE))
    ELSE IntoMap(st, field,
                 decodeMessageData(fastMode, msgs, field.MsgType, st.raw,
                                   getFn(st.data, field.Name).v, FALSE))

\* one pass of the loop over def.Fields
decodeField(fastMode, msgs, field, st) ==
    IF ~field.Value.nil
    THEN SetField(st, field.Name, ConstValue(field.Type, field.Value), st.raw, "nil")
    ELSE IF field.Type # "Complex"
    THEN BasicField(st, field, decodeFieldBasic(fastMode, field, st.raw))
    ELSE IF field.IsArray
    THEN ComplexSlice(st, field, getFieldTypeFn(st.data, field.Name),
                      decodeFieldComplexSlice(fastMode, msgs, field, st.raw,
                                              getFieldTypeFn(st.data, field.Name)))
    ELSE IF getFn(st.data, field.Name).canAddr
    THEN InPlace(st, field,
                 decodeMessageData(fastMode, msgs, field.MsgType, st.raw,
                                   getFn(st.data, field.Name).v, TRUE))
    ELSE IntoMap(st, field,
                 decodeMessageData(fastMode, msgs, field.MsgType, st.raw,
                                   getFn(st.data, field.Name).v, FALSE))

decodeFields(fastMode, msgs, fields, i, st) ==
    IF st.err # "nil" THEN DecodeResult(<<>>, st.err, st.data)
    ELSE IF i > Len(fields) THEN st
    ELSE decodeFields(fastMode, msgs, fields, i + 1,
                      decodeField(fastMode, msgs, fields[i], st))

\* decodeMessageData(def, raw, data): a pointer is followed once, and the
\* map case asserts data itself to be a map[string]interface{}
decodeMessageData(fastMode, msgs, d, raw, data, ptr) ==
    IF data.type.kind = "Map"
    THEN IF ptr \/ data.type.name # MapType.name
         THEN DecodeResult(<<>>, "panic", data)
         ELSE decodeFields(fastMode, msgs, msgs[d].Fields, 1, DecodeResult(raw, "nil", data))
    ELSE IF data.type.kind = "Struct"
    THEN decodeFields(fastMode, msgs, msgs[d].Fields, 1, DecodeResult(raw, "nil", data))
    ELSE DecodeResult(<<>>, "errInvalidDataType", data)

(***************************************************************************)
(* Decoder.checkVersion: fmt.Fscanf(reader, "#ROSBAG V%d.%d\n", ...) and   *)
(* the comparison with supportedVersion.  A scan step takes the number of  *)
(* bytes of src consumed so far and returns the number consumed after it.  *)
(* The input is ASCII, so a rune is a byte.                                *)
(***************************************************************************)
versionFormatHead == <<35, 82, 79, 83, 66, 65, 71>>

\* fmt's isSpace on ASCII
IsFmtSpace(c) == c \in {9, 10, 11, 12, 13, 32}

\* a literal byte of the format: it must be the next input byte
ScanLiteral(src, p, c) ==
    IF p >= Len(src) THEN [p |-> p, err |-> "ErrUnexpectedEOF"]
    ELSE IF src[p + 1] # c THEN [p |-> p, err |-> "input does not match format"]
    ELSE [p |-> p + 1, err |-> "nil"]

RECURSIVE ScanLiterals(_, _, _)
ScanLiterals(src, p, lits) ==
    IF Len(lits) = 0 THEN [p |-> p, err |-> "nil"]
    ELSE LET r == ScanLiteral(src, p, Head(lits))
         IN  IF r.err # "nil" THEN r ELSE ScanLiterals(src, r.p, Tail(lits))

\* the position after the spaces other than newline that start at p
RECURSIVE SkipBlanks(_, _)
SkipBlanks(src, p) ==
    IF p < Len(src) /\ IsFmtSpace(src[p + 1]) /\ src[p + 1] # 10
    THEN SkipBlanks(src, p + 1) ELSE p

\* a space of the format: one or more spaces of the input, or its end
ScanSpace(src, p) ==
    IF p >= Len(src) THEN [p |-> p, err |-> "nil"]
    ELSE IF ~IsFmtSpace(src[p + 1])
    THEN [p |-> p + 1, err |-> "expected space in input to match format"]
    ELSE IF src[p + 1] = 10
    THEN [p |-> p + 1, err |-> "newline in input does not match format"]
    ELSE [p |-> SkipBlanks(src, p + 1), err |-> "nil"]

\* the position after the digits that start at p
RECURSIVE SkipDigits(_, _)
SkipDigits(src, p) ==
    IF p < Len(src) /\ IsDigit(src[p + 1]) THEN SkipDigits(src, p + 1) ELSE p

\* the verb %d into a uint: spaces are skipped, then one or more digits
ScanUint(src, p) ==
    LET q == SkipBlanks(src, p)
        e == SkipDigits(src, q)
    IN  IF q < Len(src) /\ src[q + 1] = 10
        THEN [p |-> q + 1, v |-> 0, err |-> "unexpected newline"]
        ELSE IF q >= Len(src) THEN [p |-> q, v |-> 0, err |-> "ErrUnexpectedEOF"]
        ELSE IF e = q THEN [p |-> q, v |-> 0, err |-> "expected integer"]
        ELSE LET n == ParseUint(SubSeq(src, q + 1, e), 64)
             IN  IF n.err # "nil" THEN [p |-> e, v |-> 0, err |-> n.err]
                 ELSE [p |-> e, v |-> n.digits, err |-> "nil"]

\* a newline of the format: spaces, then a newline or the end of the input
ScanNewline(src, p) ==
    LET q == SkipBlanks(src, p)
    IN  IF q >= Len(src) THEN [p |-> q, err |-> "nil"]
        ELSE IF src[q + 1] = 10 THEN [p |-> q + 1, err |-> "nil"]
        ELSE [p |-> q + 1, err |-> "newline in format does not match input"]

\* Decoder.checkVersion from position p of src: the new position and the error
checkVersion(src, p) ==
    LET a == ScanLiterals(src, p, versionFormatHead)
        b == ScanSpace(src, a.p)
        c == ScanLiteral(src, b.p, 86)
        major == ScanUint(src, c.p)
        d == ScanLiteral(src, major.p, 46)
        minor == ScanUint(src, d.p)
        e == ScanNewline(src, minor.p)
    IN  IF a.err # "nil" THEN [p |-> a.p, err |-> a.err]
        ELSE IF b.err # "nil" THEN [p |-> b.p, err |-> b.err]
        ELSE IF c.err # "nil" THEN [p |-> c.p, err |-> c.err]
        ELSE IF major.err # "nil" THEN [p |-> major.p, err |-> major.err]
        ELSE IF d.err # "nil" THEN [p |-> d.p, err |-> d.err]
        ELSE IF minor.err # "nil" THEN [p |-> minor.p, err |-> minor.err]
        ELSE IF e.err # "nil" THEN [p |-> e.p, err |-> e.err]
        ELSE IF major.v # <<48 + supportedVersion.Major>>
                \/ minor.v # <<48 + supportedVersion.Minor>>
        THEN [p |-> e.p, err |-> "version is not supported"]
        ELSE [p |-> e.p, err |-> "nil"]

(***************************************************************************)
(* The state of the decoder and of its caller.                             *)
(***************************************************************************)
VARIABLES
    stream,          \* the bytes of the primary source, fixed at Init
    file,            \* how stream was built (read by the claims only)
    reader,          \* decoder.reader: the number of bytes of stream consumed
    chunkReader,     \* decoder.chunkReader: nil, or a reader over the next N bytes
    checkedVersion,  \* decoder.checkedVersion
    conns,           \* decoder.conns: conn id |-> ConnectionHeader
    heap,            \* the RecordBase objects allocated so far, by address 1..
    recordPool,      \* recordPool: address |-> number of times it lies in the pool
    out,             \* the result of every Read call so far, in order
    closed,          \* closed[i]: the number of Close calls on the record of out[i]
    chunks,          \* the byte ranges of stream given to chunk readers so far
    msgDefRaw,       \* a definition text
    msgDef,          \* what unmarshall made of msgDefRaw, once it was called
    decoded,         \* the call of ViewAs, once it was made
    header,          \* a record header
    visited,         \* what iterateHeaderFields made of header, once it was called
    args,            \* the arguments of a function that is run on its own
    result           \* what the function returned, once it was called

decoderVars == <<stream, file, reader, chunkReader, checkedVersion, conns, heap,
                 recordPool, out, closed, chunks>>

vars == <<stream, file, reader, chunkReader, checkedVersion, conns, heap, recordPool,
          out, closed, chunks, msgDefRaw, msgDef, decoded, header, visited, args, result>>

NilReader == [kind |-> "nil", N |-> 0]
NilHeader == [nil |-> TRUE]
NilRecord == [kind |-> "nil", base |-> 0, connHdr |-> NilHeader, hdr |-> <<>>, data |-> <<>>]

(***************************************************************************)
(* RecordBase.  len(Raw) is even at all times (initialRecordSize at first, *)
(* 2*requiredSize after a grow), and the model keeps half of it, so that   *)
(* the lengths read from a corrupt stream stay within TLC's integers.      *)
(* Raw.data holds the bytes of Raw up to the last one written; the bytes   *)
(* behind it are zero.                                                     *)
(***************************************************************************)
\* recordPool.New
NewRecordBase ==
    [Raw |-> [half |-> initialRecordSize \div 2, data |-> <<>>],
     HeaderLen |-> 0, DataLen |-> 0]

\* Raw[from:to]
RawSlice(raw, from, to) ==
    [i \in 1..(to - from) |-> IF from + i <= Len(raw.data) THEN raw.data[from + i] ELSE 0]

\* RecordBase.grow: if uint32(len(Raw)) < requiredSize, Raw becomes a slice
\* of 2*requiredSize bytes that starts with the old bytes
grow(record, requiredSize) ==
    IF record.Raw.half < requiredSize - record.Raw.half
    THEN [record EXCEPT !.Raw.half = requiredSize]
    ELSE record

\* RecordBase.Header and RecordBase.Data
Header(record) == RawSlice(record.Raw, lenInBytes, lenInBytes + record.HeaderLen)

Data(record) ==
    RawSlice(record.Raw, 2 * lenInBytes + record.HeaderLen,
             2 * lenInBytes + record.HeaderLen + record.DataLen)

\* the bytes of Raw after bytes were stored at Raw[off:]
WriteAt(data, off, bytes) ==
    [i \in 1..Max(Len(data), off + Len(bytes)) |->
        IF i > off /\ i <= off + Len(bytes) THEN bytes[i - off]
        ELSE IF i <= Len(data) THEN data[i] ELSE 0]

(***************************************************************************)
(* Reading.  m is the state a call of Read works on: reader, chunkReader,  *)
(* conns, the record being filled, and chunks, the byte ranges of stream   *)
(* over which chunk readers were installed (read by the claims only).      *)
(* r names the reader that decodeRecord was given: "reader" or             *)
(* "chunkReader", an io.LimitReader over decoder.reader.                   *)
(***************************************************************************)
Available(r, m) ==
    IF r = "reader" THEN Len(stream) - m.reader
    ELSE Min(m.chunkReader.N, Len(stream) - m.reader)

\* io.ReadFull(r, record.Raw[off:off+n]): nil when n = 0, io.EOF when no byte
\* could be read, io.ErrUnexpectedEOF when fewer than n could
ReadFull(r, m, off, n) ==
    LET k == Min(n, Available(r, m))
        got == SubSeq(stream, m.reader + 1, m.reader + k)
    IN  [err |-> IF k = n THEN "nil" ELSE IF k = 0 THEN "EOF" ELSE "ErrUnexpectedEOF",
         m |-> [m EXCEPT !.reader = @ + k,
                         !.chunkReader.N = IF r = "reader" THEN @ ELSE @ - k,
                         !.record.Raw.data = WriteAt(@, off, got)]]

Return(m, kind, connHdr, err) ==
    [m |-> m, kind |-> kind, connHdr |-> connHdr, err |-> err]

\* RecordChunk.Compression
Compression(record) == findField(Header(record), KeyCompression)

\* handleChunk with a registry of its own for the records of the chunk: what
\* a decoder that kept one registry per stream would do
handleChunk_OwnRegistry(m) ==
    LET compression == Compression(m.record)
        installed == [m EXCEPT !.chunks = Append(@, [start |-> m.reader,
                                                     end |-> m.reader + m.record.DataLen]),
                               !.chunkReader = [kind |-> "none", N |-> m.record.DataLen],
                               !.conns = <<>>]
    IN  IF compression.err # "nil" THEN {Return(m, "nil", NilHeader, compression.err)}
        ELSE IF compression.value = CompressionNone
        THEN {Return(installed, "Chunk", NilHeader, "nil")}
        ELSE {Return(m, "nil", NilHeader, "errUnsupportedCompression")}

\* handleChunk that reads a chunk of any other compression as it reads one
\* of compression none
handleChunk_AnyCompression(m) ==
    LET compression == Compression(m.record)
        installed == [m EXCEPT !.chunks = Append(@, [start |-> m.reader,
                                                     end |-> m.reader + m.record.DataLen]),
                               !.chunkReader = [kind |-> "none", N |-> m.record.DataLen]]
    IN  IF compression.err # "nil" THEN {Return(m, "nil", NilHeader, compression.err)}
        ELSE {Return(installed, "Chunk", NilHeader, "nil")}

\* Decoder.handleChunk
handleChunk(m) ==
    LET compression == Compression(m.record)
        chunkReader_ == [kind |-> "none", N |-> m.record.DataLen]
        installed == [m EXCEPT !.chunks = Append(@, [start |-> m.reader,
                                                     end |-> m.reader + m.record.DataLen])]
    IN  IF compression.err # "nil" THEN {Return(m, "nil", NilHeader, compression.err)}
        ELSE IF compression.value = CompressionNone
        THEN {Return([installed EXCEPT !.chunkReader = chunkReader_],
                     "Chunk", NilHeader, "nil")}
        ELSE IF compression.value = CompressionBZ2
        THEN {Return([installed EXCEPT !.chunkReader = [chunkReader_ EXCEPT !.kind = "bz2"]],
                     "Chunk", NilHeader, "nil")}
        ELSE IF compression.value = CompressionLZ4
        THEN {Return([installed EXCEPT !.chunkReader = [chunkReader_ EXCEPT !.kind = "lz4"]],
                     "Chunk", NilHeader, "nil")}
        ELSE {Return(m, "nil", NilHeader, "errUnsupportedCompression")}

\* RecordConnection.ConnectionHeader: the possible (header, err) pairs.  The
\* visitor's assignment to err is overwritten by the result of
\* iterateHeaderFields, so the error of unmarshall is lost unless it is a
\* panic.
RECURSIVE VisitConnectionFields(_, _)
VisitConnectionFields(hdrs, fields) ==
    IF Len(fields) = 0 THEN hdrs
    ELSE LET f == Head(fields)
             step(h) ==
                IF h.panic THEN {h}
                ELSE IF f.key = KeyTopic THEN {[h EXCEPT !.Topic = f.value]}
                ELSE IF f.key = KeyType THEN {[h EXCEPT !.Type = f.value]}
                ELSE IF f.key = KeyMD5Sum THEN {[h EXCEPT !.MD5Sum = f.value]}
                ELSE IF f.key = KeyMessageDefinition
                THEN {[h EXCEPT !.MessageDefinition = u.def, !.panic = (u.err = "panic")] :
                        u \in unmarshall(h.MessageDefinition, f.value)}
                ELSE {h}
         IN  VisitConnectionFields(UNION {step(h) : h \in hdrs}, Tail(fields))

ConnectionHeader(record) ==
    LET it == iterateHeaderFields(Data(record))
        zero == [nil |-> FALSE, Topic |-> <<>>, Type |-> <<>>, MD5Sum |-> <<>>,
                 MessageDefinition |-> EmptyDefinition, panic |-> FALSE]
    IN  {[hdr |-> [nil |-> FALSE, Topic |-> h.Topic, Type |-> h.Type, MD5Sum |-> h.MD5Sum,
                   MessageDefinition |-> h.MessageDefinition],
          err |-> IF h.panic THEN "panic" ELSE it.err] :
            h \in VisitConnectionFields({zero}, it.fields)}

\* handleConnection that keeps the header a conn id was first registered
\* with
handleConnection_KeepFirst(m) ==
    LET conn == findFieldUint32(Header(m.record), KeyConn)
    IN  IF conn.err # "nil" THEN {Return(m, "nil", NilHeader, conn.err)}
        ELSE {IF c.err # "nil" THEN Return(m, "nil", NilHeader, c.err)
              ELSE Return([m EXCEPT !.conns =
                                [id \in DOMAIN m.conns \cup {conn.v} |->
                                    IF id \in DOMAIN m.conns THEN m.conns[id] ELSE c.hdr]],
                          "Connection", NilHeader, "nil") :
                c \in ConnectionHeader(m.record)}

\* Decoder.handleConnection
handleConnection(m) ==
    LET conn == findFieldUint32(Header(m.record), KeyConn)
    IN  IF conn.err # "nil" THEN {Return(m, "nil", NilHeader, conn.err)}
        ELSE {IF c.err # "nil" THEN Return(m, "nil", NilHeader, c.err)
              ELSE Return([m EXCEPT !.conns =
                                [id \in DOMAIN m.conns \cup {conn.v} |->
                                    IF id = conn.v THEN c.hdr ELSE m.conns[id]]],
                          "Connection", NilHeader, "nil") :
                c \in ConnectionHeader(m.record)}

\* handleMessageData without the test of the lookup: a MessageData of an
\* unregistered conn id is returned with the zero header
handleMessageData_NoLookupTest(m) ==
    LET conn == findFieldUint32(Header(m.record), KeyConn)
    IN  IF conn.err # "nil" THEN {Return(m, "nil", NilHeader, conn.err)}
        ELSE IF conn.v \notin DOMAIN m.conns
        THEN {Return(m, "MessageData", NilHeader, "nil")}
        ELSE {Return(m, "MessageData", m.conns[conn.v], "nil")}

\* Decoder.handleMessageData
handleMessageData(m) ==
    LET conn == findFieldUint32(Header(m.record), KeyConn)
    IN  IF conn.err # "nil" THEN {Return(m, "nil", NilHeader, conn.err)}
        ELSE IF conn.v \notin DOMAIN m.conns
        THEN {Return(m, "nil", NilHeader, "errNotFoundConnectionHeader")}
        ELSE {Return(m, "MessageData", m.conns[conn.v], "nil")}

\* Decoder.decodeRecord(r, record): the set of its possible results
decodeRecord(r, m0) ==
    LET rd1 == ReadFull(r, [m0 EXCEPT !.record = grow(@, lenInBytes)], 0, lenInBytes)
    IN  IF rd1.err # "nil" THEN {Return(rd1.m, "nil", NilHeader, rd1.err)}
        ELSE
        LET HeaderLen == Uint32(RawSlice(rd1.m.record.Raw, 0, lenInBytes))
            off1 == lenInBytes
            rd2 == ReadFull(r, [rd1.m EXCEPT !.record =
                                    grow([@ EXCEPT !.HeaderLen = HeaderLen], off1 + HeaderLen)],
                            off1, HeaderLen)
        IN  IF rd2.err # "nil" THEN {Return(rd2.m, "nil", NilHeader, rd2.err)}
            ELSE
            LET off2 == off1 + HeaderLen
                op == Op(Header(rd2.m.record))
                rd3 == ReadFull(r, [rd2.m EXCEPT !.record = grow(@, off2 + lenInBytes)],
                                off2, lenInBytes)
            IN  IF op.err # "nil" THEN {Return(rd2.m, "nil", NilHeader, op.err)}
                ELSE IF rd3.err # "nil" THEN {Return(rd3.m, "nil", NilHeader, rd3.err)}
                ELSE
                LET DataLen == Uint32(RawSlice(rd3.m.record.Raw, off2, off2 + lenInBytes))
                    off3 == off2 + lenInBytes
                    m3 == [rd3.m EXCEPT !.record.DataLen = DataLen]
                    rd4 == ReadFull(r, [m3 EXCEPT !.record = grow(@, off3 + DataLen)],
                                    off3, DataLen)
                IN  IF op.op = OpChunk THEN handleChunk(m3)
                    ELSE IF rd4.err # "nil" THEN {Return(rd4.m, "nil", NilHeader, rd4.err)}
                    ELSE IF op.op = OpBagHeader
                    THEN {Return(rd4.m, "BagHeader", NilHeader, "nil")}
                    ELSE IF op.op = OpConnection THEN handleConnection(rd4.m)
                    ELSE IF op.op = OpMessageData THEN handleMessageData(rd4.m)
                    ELSE IF op.op = OpIndexData
                    THEN {Return(rd4.m, "IndexData", NilHeader, "nil")}
                    ELSE IF op.op = OpChunkInfo
                    THEN {Return(rd4.m, "ChunkInfo", NilHeader, "nil")}
                    ELSE {Return(rd4.m, "nil", NilHeader, "errInvalidOp")}

(***************************************************************************)
(* The byte sources the decoder is run on.  A file is described by its     *)
(* preamble, its records and the number of bytes kept of their encoding    *)
(* (cut = -1 keeps them all); an item describes one record.  A chunk item  *)
(* carries the items of its body, and short, the number of bytes by which  *)
(* its datalen falls short of the length of that body; a chunkCut item     *)
(* has the first d bytes of the encoding of its items as its body.         *)
(***************************************************************************)
\* one header field, <fieldlen><key>=<value>, as the tests' add() lays it out
Field(key, value) ==
    PutUint32(Len(key) + 1 + Len(value)) \o key \o <<headerFieldDelimiter>> \o value

\* one record, <hdrlen><hdr><datalen><data>
Record(hdr, data) == PutUint32(Len(hdr)) \o hdr \o PutUint32(Len(data)) \o data

\* the message definitions carried by the Connection records of the model:
\* "int32 x", a complex field with its MSG: block, a complex field without
\* one, and a fixed array whose size is no number
Definitions ==
    << <<105, 110, 116, 51, 50, 32, 120, 10>>,
       <<70, 111, 111, 32, 102, 10, 77, 83, 71, 58, 32, 112, 47, 70, 111, 111, 10,
         105, 110, 116, 56, 32, 121, 10>>,
       <<70, 111, 111, 32, 102, 10>>,
       <<105, 110, 116, 56, 91, 97, 93, 32, 118, 10>> >>

Item(t, c, d, inner, short) == [t |-> t, c |-> c, d |-> d, inner |-> inner, short |-> short]
Simple(t) == Item(t, 0, 0, <<>>, 0)
Conn(c, d) == Item("conn", c, d, <<>>, 0)
Msg(c) == Item("msg", c, 0, <<>>, 0)
Chunk(inner) == Item("chunk", 0, 0, inner, 0)

RECURSIVE EncodeItem(_)
RECURSIVE EncodeItems(_)
\* the header of an item
ItemHeader(it) ==
    CASE it.t = "bagHeader" -> Field(KeyOp, <<OpBagHeader>>)
      [] it.t = "indexData" -> Field(KeyOp, <<OpIndexData>>)
      [] it.t = "chunkInfo" -> Field(KeyOp, <<OpChunkInfo>>)
      [] it.t = "conn" -> Field(KeyOp, <<OpConnection>>) \o Field(KeyConn, PutUint32(it.c))
      [] it.t = "msg" -> Field(KeyConn, PutUint32(it.c)) \o Field(KeyOp, <<OpMessageData>>)
      [] it.t = "badOp" -> Field(KeyOp, <<9>>)
      [] it.t = "noOp" -> <<>>
      [] it.t = "noOpField" -> Field(KeyConn, PutUint32(1))
      [] it.t = "emptyOp" -> Field(KeyOp, <<>>)
      [] it.t = "chunk" -> Field(KeyOp, <<OpChunk>>) \o Field(KeyCompression, CompressionNone)
      [] it.t = "chunkBz2" -> Field(KeyOp, <<OpChunk>>) \o Field(KeyCompression, CompressionBZ2)
      [] it.t = "chunkLz4" -> Field(KeyOp, <<OpChunk>>) \o Field(KeyCompression, CompressionLZ4)
      [] it.t = "chunkZip" -> Field(KeyOp, <<OpChunk>>) \o Field(KeyCompression, <<122, 105, 112>>)
      [] it.t = "chunkNoCompression" -> Field(KeyOp, <<OpChunk>>)
      [] it.t = "chunkCut" -> Field(KeyOp, <<OpChunk>>) \o Field(KeyCompression, CompressionNone)
      [] it.t = "dupOp" -> Field(KeyOp, <<OpIndexData>>) \o Field(KeyOp, <<OpBagHeader>>)
      [] it.t = "dupConn" -> Field(KeyConn, PutUint32(it.c)) \o Field(KeyConn, PutUint32(it.d))
                             \o Field(KeyOp, <<OpMessageData>>)

\* the data of an item
ItemData(it) ==
    CASE it.t = "conn" -> Field(KeyTopic, <<47, 116>>) \o Field(KeyMessageDefinition, Definitions[it.d])
      [] it.t = "msg" -> <<42, 0, 0, 0>>
      [] it.t \in {"indexData", "badOp", "noOp", "emptyOp"} -> <<1>>
      [] it.t \in {"chunk", "chunkBz2", "chunkLz4", "chunkZip", "chunkNoCompression"} ->
            EncodeItems(it.inner)
      [] it.t = "chunkCut" -> Take(EncodeItems(it.inner), it.d)
      [] OTHER -> <<>>

EncodeItem(it) ==
    LET hdr == ItemHeader(it)
        data == ItemData(it)
    IN  PutUint32(Len(hdr)) \o hdr \o PutUint32(Len(data) - it.short) \o data

EncodeItems(items) ==
    IF Len(items) = 0 THEN <<>> ELSE EncodeItem(Head(items)) \o EncodeItems(Tail(items))

\* the preambles: the version line "#ROSBAG V2.0\n", and the lines that differ
\* from it in the version, the newline, a leading zero or the spacing, or
\* that are cut short, or that follow a line of another version
Preambles ==
    << <<35, 82, 79, 83, 66, 65, 71, 32, 86, 50, 46, 48, 10>>,
       <<35, 82, 79, 83, 66, 65, 71, 32, 86, 49, 46, 50, 10>>,
       <<35, 82, 79, 83, 66, 65, 71, 32, 86, 50, 46, 48>>,
       <<35, 82, 79, 83, 66, 65, 71, 32, 86, 48, 50, 46, 48, 10>>,
       <<35, 82, 79, 83, 66, 65, 71, 32, 32, 86, 50, 46, 48, 10>>,
       <<35, 82, 79, 83, 66, 65, 71, 86, 50, 46, 48, 10>>,
       <<35, 82, 79, 83, 66, 65, 71, 32, 86, 50, 46, 10>>,
       <<35, 82, 79, 83>>,
       <<>>,
       <<35, 82, 79, 83, 66, 65, 71, 32, 86, 49, 46, 50, 10,
         35, 82, 79, 83, 66, 65, 71, 32, 86, 50, 46, 48, 10>> >>

versionLine == Preambles[1]

File(pre, items, cut) == [pre |-> pre, items |-> items, cut |-> cut]

Bytes(f) ==
    LET all == Preambles[f.pre] \o EncodeItems(f.items)
    IN  IF f.cut = -1 THEN all ELSE Take(all, f.cut)

\* the sequences of at most n elements of S
RECURSIVE SeqsUpTo(_, _)
SeqsUpTo(S, n) ==
    IF n = 0 THEN {<<>>}
    ELSE LET shorter == SeqsUpTo(S, n - 1)
         IN  shorter \cup {Append(q, x) : q \in {t \in shorter : Len(t) = n - 1}, x \in S}

\* the records found inside the chunks of the generated bags
InnerItems == {Conn(1, 1), Conn(1, 2), Msg(1)}

\* the records of the generated bags
OuterItems ==
    {Conn(1, 1), Conn(1, 2), Conn(2, 1), Msg(1)}
    \cup {Chunk(inner) : inner \in SeqsUpTo(InnerItems, MaxInner)}

\* the records of every kind, each of which is also run alone and followed
\* by one well-formed record
AllItems ==
    OuterItems
    \cup {Simple(t) : t \in {"bagHeader", "indexData", "chunkInfo", "badOp", "noOp",
                             "noOpField", "emptyOp", "chunkBz2", "chunkLz4", "chunkZip",
                             "chunkNoCompression"}}
    \cup {Conn(1, 3), Conn(1, 4), Msg(2),
          Chunk(<<Simple("bagHeader"), Simple("chunkInfo")>>),
          Chunk(<<Chunk(<<Simple("indexData")>>), Simple("indexData")>>),
          Chunk(<<Chunk(<<Conn(1, 1)>>), Chunk(<<Msg(1)>>)>>),
          Chunk(<<Simple("badOp"), Msg(1)>>),
          Chunk(<<Simple("noOpField"), Msg(1)>>), Chunk(<<Simple("emptyOp")>>),
          Item("chunkZip", 0, 0, <<Msg(1)>>, 0),
          Chunk(<<Simple("chunkZip")>>), Chunk(<<Simple("indexData"), Simple("chunkZip")>>),
          Item("chunkNoCompression", 0, 0, <<Msg(1)>>, 0),
          Simple("dupOp"), Item("dupConn", 1, 2, <<>>, 0)}

\* the bags that are cut short at every length from From on, and the chunks
\* whose datalen is made shorter than their body by every amount
CutItems ==
    {[items |-> <<Simple("indexData")>>, From |-> 0],
     [items |-> <<Simple("indexData"), Simple("indexData")>>,
      From |-> Len(versionLine) + Len(EncodeItem(Simple("indexData"))) + 1],
     [items |-> <<Chunk(<<Simple("indexData")>>)>>, From |-> Len(versionLine) + 1]}

ShortChunks ==
    {Item("chunk", 0, 0, <<Simple("indexData")>>, k) :
        k \in 1..Len(EncodeItem(Simple("indexData")))}

\* the chunks whose body is the first d bytes of a record, for every d short
\* of the whole record: the record is cut by the end of the chunk body
CutChunks ==
    {Item("chunkCut", 0, d, <<Simple("indexData")>>, 0) :
        d \in 1..(Len(EncodeItem(Simple("indexData"))) - 1)}

Files ==
    {File(1, items, -1) : items \in SeqsUpTo(OuterItems, MaxRecords)}
    \cup {File(1, <<x, Simple("indexData")>>, -1) : x \in AllItems}
    \cup {File(1, <<x>>, -1) : x \in AllItems}
    \cup UNION {{File(1, c.items, n) :
                    n \in c.From..(Len(versionLine) + Len(EncodeItems(c.items)) - 1)} :
                        c \in CutItems}
    \cup {File(1, <<x, Simple("indexData")>>, -1) : x \in ShortChunks \cup CutChunks}
    \cup {File(pre, <<Simple("indexData")>>, -1) : pre \in 2..Len(Preambles)}
    \cup {File(1, <<Conn(1, 1), Item("dupConn", 1, 2, <<>>, 0)>>, -1),
          File(1, <<Conn(2, 1), Item("dupConn", 1, 2, <<>>, 0)>>, -1)}

(***************************************************************************)
(* Decoder.Read and Record.Close.                                          *)
(***************************************************************************)
\* whether some chunk reader installed so far was given bytes of stream that
\* are still unread at position m.reader
Undrained(m) ==
    \E i \in 1..Len(m.chunks) : m.reader < Min(m.chunks[i].end, Len(stream))

\* ReadRecord that returns the io.EOF of the chunk reader instead of going on
\* with decoder.reader
ReadRecord_NoFallThrough(m0) ==
    IF m0.chunkReader.kind # "nil"
    THEN {[res |-> o, primary |-> FALSE, undrained |-> FALSE] :
            o \in decodeRecord("chunkReader", m0)}
    ELSE {[res |-> o, primary |-> TRUE, undrained |-> Undrained(m0)] :
            o \in decodeRecord("reader", m0)}

\* The part of Read that follows recordPool.Get: the possible results, each
\* with primary, whether decodeRecord was called on decoder.reader, and
\* undrained, the value of Undrained at that call.
ReadRecord(m0) ==
    LET onReader(m) ==
            {[res |-> o, primary |-> TRUE, undrained |-> Undrained(m)] :
                o \in decodeRecord("reader", m)}
    IN  IF m0.chunkReader.kind # "nil"
        THEN UNION {IF o.err = "EOF"
                    THEN onReader([o.m EXCEPT !.chunkReader = NilReader])
                    ELSE {[res |-> o, primary |-> FALSE, undrained |-> FALSE]} :
                        o \in decodeRecord("chunkReader", m0)}
        ELSE onReader(m0)

\* the entry of out for a call of Read: the record and the error returned,
\* and for the claims the address got from recordPool (0 for none), whether
\* decodeRecord was called on decoder.reader, and Undrained at that call
Result(rec, err, got, primary, undrained) ==
    [rec |-> rec, err |-> err, got |-> got, primary |-> primary, undrained |-> undrained]

Crashed == Len(out) > 0 /\ out[Len(out)].err = "panic"

\* a pool that hands out any RecordBase, also one that is in use
Get_InUse == DOMAIN heap \cup {Len(heap) + 1}

\* recordPool.Get: the addresses it can return, those of the pooled objects
\* and that of a new one
Get == {i \in DOMAIN heap : recordPool[i] > 0} \cup {Len(heap) + 1}

\* Decoder.Read.  recordPool.Get hands out any pooled object or a new one.
\* The model stops at a chunk reader that decompresses: the codecs are not
\* part of it.
Read ==
    /\ Len(out) < MaxReads
    /\ UNCHANGED <<msgDefRaw, msgDef, decoded, header, visited, args, result>>
    /\ ~Crashed
    /\ chunkReader.kind \in {"nil", "none"}
    /\ LET cv == IF checkedVersion THEN [p |-> reader, err |-> "nil"]
                 ELSE checkVersion(stream, reader)
       IN  IF cv.err # "nil"
           THEN /\ reader' = cv.p
                /\ out' = Append(out, Result(NilRecord, cv.err, 0, FALSE, FALSE))
                /\ closed' = Append(closed, 0)
                /\ UNCHANGED <<stream, file, chunkReader, checkedVersion, conns, heap,
                               recordPool, chunks>>
           ELSE \E id \in Get :
                \E r \in ReadRecord([reader |-> cv.p, chunkReader |-> chunkReader,
                                     conns |-> conns, chunks |-> chunks,
                                     record |-> IF id \in DOMAIN heap THEN heap[id]
                                                ELSE NewRecordBase]) :
                LET m == r.res.m
                    got == [i \in DOMAIN heap \cup {id} |->
                                IF i = id THEN (IF id \in DOMAIN heap THEN recordPool[id] - 1 ELSE 0)
                                ELSE recordPool[i]]
                    rec == [kind |-> r.res.kind, base |-> id, connHdr |-> r.res.connHdr,
                            hdr |-> Header(m.record),
                            data |-> IF r.res.kind = "Chunk" THEN <<>> ELSE Data(m.record)]
                IN  /\ checkedVersion' = TRUE
                    /\ reader' = m.reader
                    /\ chunkReader' = m.chunkReader
                    /\ conns' = m.conns
                    /\ chunks' = m.chunks
                    /\ heap' = [i \in DOMAIN heap \cup {id} |->
                                    IF i = id THEN m.record ELSE heap[i]]
                    /\ recordPool' = IF r.res.err \in {"nil", "panic"} THEN got
                                     ELSE [got EXCEPT ![id] = @ + 1]
                    /\ out' = Append(out, Result(IF r.res.err = "nil" THEN rec ELSE NilRecord,
                                                 r.res.err, id, r.primary, r.undrained))
                    /\ closed' = Append(closed, 0)
                    /\ UNCHANGED <<stream, file>>

\* the number of Close calls so far
RECURSIVE Sum(_)
Sum(q) == IF Len(q) = 0 THEN 0 ELSE Head(q) + Sum(Tail(q))

Closes == Sum(closed)

\* a Close whose closeFn was never set: the call counts, nothing is put into
\* recordPool
Close_NoPut(i) ==
    /\ ~Crashed
    /\ out[i].rec.kind # "nil"
    /\ Closes < MaxCloses
    /\ closed' = [closed EXCEPT ![i] = @ + 1]
    /\ UNCHANGED <<stream, file, reader, chunkReader, checkedVersion, conns, heap, out,
                   recordPool, chunks, msgDefRaw, msgDef, decoded, header, visited, args,
                   result>>

\* Record.Close on the record returned by the i-th call of Read: closeFn puts
\* the record's RecordBase into recordPool
Close(i) ==
    /\ ~Crashed
    /\ out[i].rec.kind # "nil"
    /\ Closes < MaxCloses
    /\ recordPool' = [recordPool EXCEPT ![out[i].rec.base] = @ + 1]
    /\ closed' = [closed EXCEPT ![i] = @ + 1]
    /\ UNCHANGED <<stream, file, reader, chunkReader, checkedVersion, conns, heap, out,
                   chunks, msgDefRaw, msgDef, decoded, header, visited, args, result>>

\* NewDecoder over one of the byte sources
Init ==
    /\ file \in Files
    /\ stream = Bytes(file)
    /\ reader = 0
    /\ chunkReader = NilReader
    /\ checkedVersion = FALSE
    /\ conns = <<>>
    /\ heap = <<>>
    /\ recordPool = <<>>
    /\ out = <<>>
    /\ closed = <<>>
    /\ chunks = <<>>
    /\ msgDefRaw = <<>>
    /\ msgDef = <<>>
    /\ decoded = <<>>
    /\ header = <<>>
    /\ visited = <<>>
    /\ args = <<>>
    /\ result = <<>>

Next ==
    \/ Read
    \/ \E i \in 1..Len(out) : Close(i)

Spec == Init /\ [][Next]_vars

(***************************************************************************)
(* The inputs of the message decoder: definition texts, the bodies that    *)
(* encode a value of a definition as the tests' addData and                *)
(* convertFieldsToRaw lay it out, and the targets.                         *)
(***************************************************************************)
\* the definition texts given to unmarshall, each with its text
MsgDefs ==
    << \* bool a\nint8 b\nuint8 c\nint16 d\nuint16 e\n
       <<98, 111, 111, 108, 32, 97, 10, 105, 110, 116, 56, 32, 98, 10, 117, 105,
         110, 116, 56, 32, 99, 10, 105, 110, 116, 49, 54, 32, 100, 10, 117,
         105, 110, 116, 49, 54, 32, 101, 10>>,
       \* int32 a\nuint32 b\nfloat32 c\n
       <<105, 110, 116, 51, 50, 32, 97, 10, 117, 105, 110, 116, 51, 50, 32, 98,
         10, 102, 108, 111, 97, 116, 51, 50, 32, 99, 10>>,
       \* int64 a\nuint64 b\nfloat64 c\n
       <<105, 110, 116, 54, 52, 32, 97, 10, 117, 105, 110, 116, 54, 52, 32, 98,
         10, 102, 108, 111, 97, 116, 54, 52, 32, 99, 10>>,
       \* string s\ntime t\nduration d\n
       <<115, 116, 114, 105, 110, 103, 32, 115, 10, 116, 105, 109, 101, 32, 116,
         10, 100, 117, 114, 97, 116, 105, 111, 110, 32, 100, 10>>,
       \* int16[] a\nint16[2] b\n
       <<105, 110, 116, 49, 54, 91, 93, 32, 97, 10, 105, 110, 116, 49, 54, 91, 50,
         93, 32, 98, 10>>,
       \* bool[] a\nuint8[1] b\nstring[] c\n
       <<98, 111, 111, 108, 91, 93, 32, 97, 10, 117, 105, 110, 116, 56, 91, 49,
         93, 32, 98, 10, 115, 116, 114, 105, 110, 103, 91, 93, 32, 99, 10>>,
       \* time[] a\nduration[1] b\nuint32[] c\n
       <<116, 105, 109, 101, 91, 93, 32, 97, 10, 100, 117, 114, 97, 116, 105, 111,
         110, 91, 49, 93, 32, 98, 10, 117, 105, 110, 116, 51, 50, 91, 93,
         32, 99, 10>>,
       \* P p\nuint8 z\nMSG: x/P\nuint8 a\n
       <<80, 32, 112, 10, 117, 105, 110, 116, 56, 32, 122, 10, 77, 83, 71, 58, 32,
         120, 47, 80, 10, 117, 105, 110, 116, 56, 32, 97, 10>>,
       \* P[] p\nP[1] q\nMSG: x/P\nuint8 a\n
       <<80, 91, 93, 32, 112, 10, 80, 91, 49, 93, 32, 113, 10, 77, 83, 71, 58, 32,
         120, 47, 80, 10, 117, 105, 110, 116, 56, 32, 97, 10>>,
       \* uint8 K=7\nuint8 a\n
       <<117, 105, 110, 116, 56, 32, 75, 61, 55, 10, 117, 105, 110, 116, 56, 32,
         97, 10>>,
       \* string S=hi\nbool B=1\nint16 a\n
       <<115, 116, 114, 105, 110, 103, 32, 83, 61, 104, 105, 10, 98, 111, 111,
         108, 32, 66, 61, 49, 10, 105, 110, 116, 49, 54, 32, 97, 10>>,
       \* int8 X=-1\n
       <<105, 110, 116, 56, 32, 88, 61, 45, 49, 10>>,
       \* int8 X=300\n
       <<105, 110, 116, 56, 32, 88, 61, 51, 48, 48, 10>>,
       \* int8 X=abc\n
       <<105, 110, 116, 56, 32, 88, 61, 97, 98, 99, 10>>,
       \* bool b=2\n
       <<98, 111, 111, 108, 32, 98, 61, 50, 10>>,
       \* float32 f=x\n
       <<102, 108, 111, 97, 116, 51, 50, 32, 102, 61, 120, 10>>,
       \* time t=1\n
       <<116, 105, 109, 101, 32, 116, 61, 49, 10>>,
       \* duration d=1\n
       <<100, 117, 114, 97, 116, 105, 111, 110, 32, 100, 61, 49, 10>>,
       \* P p=1\nMSG: x/P\nuint8 a\n
       <<80, 32, 112, 61, 49, 10, 77, 83, 71, 58, 32, 120, 47, 80, 10, 117, 105,
         110, 116, 56, 32, 97, 10>> >>

\* the bytes of the numbers and strings of an encoded message
WireBytes == {1, 65}
\* the bytes of the pieces of a header: '=' and 'a'
HeaderBytes == {61, 97}

\* no definition of the model has more fields
MaxFields == 5

\* s repeated k times
RECURSIVE Rep(_, _)
Rep(s, k) == IF k <= 0 THEN <<>> ELSE s \o Rep(s, k - 1)

\* addData: a value of a builtin type whose bytes are b (a bool is written
\* as 0 or 1), a string of n bytes b
WireBasic(fieldType, n, b) ==
    CASE fieldType = "Bool" -> <<IF b = 0 THEN 0 ELSE 1>>
      [] fieldType = "String" -> PutUint32(n) \o Rep(<<b>>, n)
      [] OTHER -> Rep(<<b>>, Width(fieldType))

\* convertFieldsToRaw: the encoding of a value of the definition d in which
\* every dynamic array and string has the length n and every byte of a
\* number is b; a constant takes no bytes
RECURSIVE Wire(_, _, _, _)
RECURSIVE WireFields(_, _, _, _, _)
WireElement(msgs, field, n, b) ==
    IF field.Type = "Complex" THEN Wire(msgs, field.MsgType, n, b)
    ELSE WireBasic(field.Type, n, b)

WireField(msgs, field, n, b) ==
    IF ~field.Value.nil THEN <<>>
    ELSE IF ~field.IsArray THEN WireElement(msgs, field, n, b)
    ELSE IF field.ArraySize >= 0
    THEN Rep(WireElement(msgs, field, n, b), field.ArraySize)
    ELSE PutUint32(n) \o Rep(WireElement(msgs, field, n, b), n)

WireFields(msgs, fields, i, n, b) ==
    IF i > Len(fields) THEN <<>>
    ELSE WireField(msgs, fields[i], n, b) \o WireFields(msgs, fields, i + 1, n, b)

Wire(msgs, d, n, b) == WireFields(msgs, msgs[d].Fields, 1, n, b)

\* the bodies given to decodeMessageData: the encodings and what is left of
\* them when the last bytes are missing
Wires(msgs) == {Wire(msgs, 1, n, b) : n \in 0..MaxLength, b \in WireBytes}

Bodies(msgs) == UNION {{Take(w, k) : k \in 0..Len(w)} : w \in Wires(msgs)}

\* the struct type that mirrors the definition d, each field tagged with
\* the name of the definition field and of the Go type its decoder returns
RECURSIVE StructFor(_, _)
FieldType(msgs, field) ==
    IF field.Type # "Complex"
    THEN IF field.IsArray /\ field.Value.nil THEN SliceOf(BasicType(field.Type))
         ELSE BasicType(field.Type)
    ELSE IF field.IsArray THEN SliceOf(StructFor(msgs, field.MsgType))
    ELSE StructFor(msgs, field.MsgType)

StructFor(msgs, d) ==
    GoType("Struct", "struct", <<>>,
           [i \in 1..Len(msgs[d].Fields) |->
               [tag |-> msgs[d].Fields[i].Name,
                type |-> FieldType(msgs, msgs[d].Fields[i])]])

\* a struct field that no definition of the model names, and the value it
\* holds before the call
ExtraField == [tag |-> <<95>>, type |-> BasicType("Uint8")]
PriorValue == Value(BasicType("Uint8"), 9)

\* the types given to a struct field in place of the mirroring one
OtherTypes ==
    <<BasicType("String"), BasicType("Uint32"), BasicType("Int64"), BasicType("Time"),
      SliceOf(BasicType("Int32")), SliceOf(BasicType("String")), MapType,
      GoType("Struct", "Other", <<>>, <<>>),
      GoType("Ptr", "*Other", <<>>, <<>>)>>

\* the struct targets: the mirroring struct, the structs in which the field
\* i is replaced by ExtraField holding PriorValue, and the structs in which
\* the type of the field i is replaced by another one
Mirror(msgs) == Value(StructFor(msgs, 1), Zero(StructFor(msgs, 1)))

Replaced(type, i, field) ==
    [type EXCEPT !.name = "struct'", !.fields[i] = field]

Lacking(msgs, i) ==
    Value(Replaced(StructFor(msgs, 1), i, ExtraField),
          [Zero(StructFor(msgs, 1)) EXCEPT ![i] = PriorValue])

Retyped(msgs, i, type) ==
    Value(Replaced(StructFor(msgs, 1), i, [tag |-> msgs[1].Fields[i].Name, type |-> type]),
          [Zero(StructFor(msgs, 1)) EXCEPT ![i] = Value(type, Zero(type))])

\* the targets, in a row: the map, the mirroring struct, the lacking and
\* the retyped structs
Targets(msgs) ==
    <<Value(MapType, <<>>), Mirror(msgs)>>
    \o [i \in 1..Len(msgs[1].Fields) |-> Lacking(msgs, i)]
    \o [k \in 1..(Len(msgs[1].Fields) * Len(OtherTypes)) |->
            Retyped(msgs, ((k - 1) \div Len(OtherTypes)) + 1,
                    OtherTypes[((k - 1) % Len(OtherTypes)) + 1])]

\* the headers given to iterateHeaderFields: up to MaxFields pieces, each a
\* length and some bytes, and what is left of them when bytes are missing
Piece == {PutUint32(l) \o s : l \in 0..MaxFieldLen, s \in SeqsUpTo(HeaderBytes, MaxFieldLen)}

Headers ==
    {<<>>} \cup Piece
    \cup {Take(p, k) : p \in Piece, k \in 1..3}
    \cup {p \o q : p \in {Field(<<97>>, <<>>), Field(<<>>, <<61>>), Field(<<97>>, <<98>>)},
                   q \in Piece}

(***************************************************************************)
(* The message decoder on its own: a definition text is parsed by          *)
(* unmarshall, and a body is then viewed through decodeMessageData, as     *)
(* RecordMessageData.ViewAs does with the definition of the record's       *)
(* connection.                                                             *)
(***************************************************************************)
NoDecoder ==
    /\ stream = <<>>
    /\ file = <<>>
    /\ reader = 0
    /\ chunkReader = NilReader
    /\ checkedVersion = FALSE
    /\ conns = <<>>
    /\ heap = <<>>
    /\ recordPool = <<>>
    /\ out = <<>>
    /\ closed = <<>>
    /\ chunks = <<>>

NoMessage == msgDefRaw = <<>> /\ msgDef = <<>> /\ decoded = <<>>

NoHeader == header = <<>> /\ visited = <<>>

NoCall == args = <<>> /\ result = <<>>

\* MessageDefinition.unmarshall on a zero MessageDefinition
Unmarshall ==
    /\ Len(msgDef) = 0
    /\ \E r \in unmarshall(EmptyDefinition, msgDefRaw) : msgDef' = <<r>>
    /\ UNCHANGED <<msgDefRaw, decoded, header, visited, args, result>>
    /\ UNCHANGED decoderVars

\* the calls of the model, a body and the index of a target: every body
\* into the map and into the mirroring struct, and every encoding into
\* every target
Calls(msgs) ==
    (Bodies(msgs) \X {1, 2}) \cup (Wires(msgs) \X DOMAIN Targets(msgs))

\* the entry of decoded for a call of ViewAs: its inputs and what
\* decodeMessageData returned
Viewed(fastMode, raw, data, res) ==
    [fastMode |-> fastMode, raw |-> raw, data |-> data, res |-> res]

\* RecordMessageData.ViewAs(v) on a record whose data is raw, with the slice
\* table that initFieldSliceDecoder(fastMode) installed at start-up.  The
\* record may be viewed again, into the map or the mirroring struct.
ViewAs ==
    /\ Len(msgDef) = 1
    /\ msgDef[1].err = "nil"
    /\ Len(decoded) < MaxViews
    /\ \E fastMode \in BOOLEAN, c \in Calls(msgDef[1].def.msgs) :
            /\ Len(decoded) > 0 =>
                    /\ fastMode = decoded[1].fastMode
                    /\ c[1] = decoded[1].raw
                    /\ c[2] \in {1, 2}
            /\ decoded' = Append(decoded,
                                 Viewed(fastMode, c[1], Targets(msgDef[1].def.msgs)[c[2]],
                                        decodeMessageData(fastMode, msgDef[1].def.msgs, 1,
                                                          c[1],
                                                          Targets(msgDef[1].def.msgs)[c[2]],
                                                          c[2] # 1)))
    /\ UNCHANGED <<msgDefRaw, msgDef, header, visited, args, result>>
    /\ UNCHANGED decoderVars

InitMessage ==
    /\ NoDecoder
    /\ NoHeader
    /\ NoCall
    /\ msgDefRaw \in {MsgDefs[i] : i \in DOMAIN MsgDefs}
    /\ msgDef = <<>>
    /\ decoded = <<>>

NextMessage == Unmarshall \/ ViewAs

SpecMessage == InitMessage /\ [][NextMessage]_vars

(***************************************************************************)
(* iterateHeaderFields on its own, with a visitor that records what it is  *)
(* given and always continues.                                             *)
(***************************************************************************)
IterateHeaderFields ==
    /\ Len(visited) = 0
    /\ visited' = <<iterateHeaderFields(header)>>
    /\ UNCHANGED <<msgDefRaw, msgDef, decoded, header, args, result>>
    /\ UNCHANGED decoderVars

InitHeader ==
    /\ NoDecoder
    /\ NoMessage
    /\ NoCall
    /\ header \in Headers
    /\ visited = <<>>

NextHeader == IterateHeaderFields

SpecHeader == InitHeader /\ [][NextHeader]_vars

(***************************************************************************)
(* The decoder with a caller that views the MessageData records it was     *)
(* returned, each time into the one map it holds: after a call the map is  *)
(* what decodeMessageData left in it.                                      *)
(***************************************************************************)
\* a ConnectionHeader() that looks the conn id up in the registry at the
\* time of the call
MessageDataConnectionHeader_Lookup(rec) ==
    conns[findFieldUint32(rec.hdr, KeyConn).v]

\* RecordMessageData.ConnectionHeader
MessageDataConnectionHeader(rec) == rec.connHdr

\* the map the caller passes: empty at first
HeldMap == IF Len(decoded) = 0 THEN Value(MapType, <<>>) ELSE decoded[Len(decoded)].res.data

\* RecordMessageData.ViewAs(m) on the record returned by the i-th call of
\* Read, m being the caller's map: the definition is that of the record's
\* connHdr, the body is the record's Data() as its buffer holds it now.
\* The entry of decoded also tells the record and, in at, the number of
\* calls of Read made before.
ViewRecord(i) ==
    /\ ~Crashed
    /\ out[i].rec.kind = "MessageData"
    /\ Len(decoded) < MaxViews
    /\ \E fastMode \in BOOLEAN :
            /\ Len(decoded) > 0 => fastMode = decoded[1].fastMode
            /\ decoded' =
                  Append(decoded,
                         [rec |-> i, at |-> Len(out), fastMode |-> fastMode,
                          raw |-> Data(heap[out[i].rec.base]), data |-> HeldMap,
                          res |-> decodeMessageData(
                                     fastMode,
                                     MessageDataConnectionHeader(out[i].rec).MessageDefinition.msgs,
                                     1, Data(heap[out[i].rec.base]), HeldMap, FALSE)])
    /\ UNCHANGED <<msgDefRaw, msgDef, header, visited, args, result>>
    /\ UNCHANGED decoderVars

\* the bags of the caller that views: four records, Connection and
\* MessageData records of the conn ids 1 and 2, with re-registrations
ViewFiles ==
    {File(1, <<Conn(1, a), Msg(1), Conn(c, b), Msg(c)>>, -1) : a, b, c \in {1, 2}}
    \cup {File(1, <<Conn(1, a), Conn(2, b), Msg(1), Msg(2)>>, -1) : a, b \in {1, 2}}
    \cup {File(1, <<Conn(1, a), Msg(1), Msg(1), Conn(1, b)>>, -1) : a, b \in {1, 2}}

InitView ==
    /\ file \in ViewFiles
    /\ stream = Bytes(file)
    /\ reader = 0
    /\ chunkReader = NilReader
    /\ checkedVersion = FALSE
    /\ conns = <<>>
    /\ heap = <<>>
    /\ recordPool = <<>>
    /\ out = <<>>
    /\ closed = <<>>
    /\ chunks = <<>>
    /\ NoMessage
    /\ NoHeader
    /\ NoCall

NextView ==
    \/ Read
    \/ \E i \in 1..Len(out) : Close(i)
    \/ \E i \in 1..Len(out) : ViewRecord(i)

SpecView == InitView /\ [][NextView]_vars

(***************************************************************************)
(* unmarshall on its own, on the definition texts of at most MaxLines      *)
(* lines drawn from DefinitionLines.                                       *)
(***************************************************************************)
MaxLines == 3

\* the boolean constants of the texts: 0, 1, 2 and 255
BoolConstants == {<<48>>, <<49>>, <<50>>, <<50, 53, 53>>}

\* "bool b=" and the constant
BoolLine(k) == <<98, 111, 111, 108, 32, 98, 61>> \o k

\* the lines: "P p", "x/P q", "Q q", "[] z", "uint8 a", "MSG: x/P",
\* "MSG: y/P" and the lines of the boolean constants
DefinitionLines ==
    {<<80, 32, 112>>, <<120, 47, 80, 32, 113>>, <<81, 32, 113>>, <<91, 93, 32, 122>>,
     <<117, 105, 110, 116, 56, 32, 97>>,
     <<77, 83, 71, 58, 32, 120, 47, 80>>, <<77, 83, 71, 58, 32, 121, 47, 80>>}
    \cup {BoolLine(k) : k \in BoolConstants}

\* the text of the lines, each ended by a newline
RECURSIVE JoinLines(_)
JoinLines(lines) ==
    IF Len(lines) = 0 THEN <<>> ELSE Head(lines) \o <<10>> \o JoinLines(Tail(lines))

DefinitionTexts == {JoinLines(lines) : lines \in SeqsUpTo(DefinitionLines, MaxLines)}

InitDefinition ==
    /\ NoDecoder
    /\ NoHeader
    /\ NoCall
    /\ msgDefRaw \in DefinitionTexts
    /\ msgDef = <<>>
    /\ decoded = <<>>

NextDefinition == Unmarshall

SpecDefinition == InitDefinition /\ [][NextDefinition]_vars

(***************************************************************************)
(* What a bag holds, read off its description: the records in the order    *)
(* they are to be surfaced, and the offsets of stream at which a record    *)
(* ends.                                                                   *)
(***************************************************************************)
IsChunk(it) == it.t \in {"chunk", "chunkBz2", "chunkLz4", "chunkZip", "chunkNoCompression"}

\* the records of a bag, those of a chunk body right after their chunk
RECURSIVE Flatten(_)
Flatten(items) ==
    IF Len(items) = 0 THEN <<>>
    ELSE LET it == Head(items)
         IN  (IF it.t = "chunk" THEN <<it>> \o it.inner ELSE <<it>>) \o Flatten(Tail(items))

KindOf(it) ==
    CASE it.t = "bagHeader" -> "BagHeader"
      [] it.t = "indexData" -> "IndexData"
      [] it.t = "chunkInfo" -> "ChunkInfo"
      [] it.t = "conn" -> "Connection"
      [] it.t = "msg" -> "MessageData"
      [] it.t = "chunk" -> "Chunk"
      [] OTHER -> "nil"

\* a bag of complete, valid records: the version line, records of the six
\* kinds with well-formed definitions, chunks (compression none) that hold
\* no chunk, and every MessageData after a Connection of its conn id
WellFormedItem(it) ==
    /\ it.t \in {"bagHeader", "indexData", "chunkInfo", "conn", "msg", "chunk"}
    /\ it.t = "conn" => it.d \in {1, 2}
    /\ it.short = 0

ValidFile(f) ==
    LET flat == Flatten(f.items)
    IN  /\ f.pre = 1
        /\ f.cut = -1
        /\ \A i \in 1..Len(f.items) :
              /\ WellFormedItem(f.items[i])
              /\ \A k \in 1..Len(f.items[i].inner) :
                    /\ WellFormedItem(f.items[i].inner[k])
                    /\ f.items[i].inner[k].t # "chunk"
        /\ \A j \in 1..Len(flat) :
              flat[j].t = "msg" => \E i \in 1..(j - 1) : flat[i].t = "conn" /\ flat[i].c = flat[j].c

\* C1: for a bag of the version line and complete, valid records, the calls
\* of Read return the records in file order, those of a chunk body between
\* their chunk and the next outer record, and after the last record every
\* call returns io.EOF and no record.
C1_FileOrder ==
    ValidFile(file) =>
        LET flat == Flatten(file.items)
        IN  \A i \in 1..Len(out) :
                IF i <= Len(flat)
                THEN /\ out[i].err = "nil"
                     /\ out[i].rec.kind = KindOf(flat[i])
                     /\ out[i].rec.hdr = ItemHeader(flat[i])
                     /\ out[i].rec.data = IF flat[i].t = "chunk" THEN <<>> ELSE ItemData(flat[i])
                ELSE out[i].err = "EOF" /\ out[i].rec = NilRecord

\* a chunk, the record of its body, the record behind the chunk and then
\* io.EOF were returned
C1_Witness ==
    /\ ValidFile(file)
    /\ Len(file.items) = 2
    /\ Len(out) = 4
    /\ out[1].rec.kind = "Chunk"
    /\ out[2].rec.kind = "Connection" /\ ~out[2].primary
    /\ out[3].rec.kind = "MessageData" /\ out[3].primary
    /\ out[4].err = "EOF" /\ out[4].rec = NilRecord

(***************************************************************************)
(* The last call of Read, for the claims about one call: the step, its     *)
(* entry of out and the header it read into the record.                    *)
(***************************************************************************)
ReadStep == Len(out') = Len(out) + 1

LastOut == out'[Len(out')]

\* the call read a whole header into its record
ReadHeader ==
    /\ ReadStep
    /\ LastOut.got # 0
    /\ LastOut.err \notin {"EOF", "ErrUnexpectedEOF"}

LastHeader == Header(heap'[LastOut.got])

\* the call read a whole MessageData record of conn id c
ReadMessageData(c) ==
    /\ ReadHeader
    /\ Op(LastHeader) = [op |-> OpMessageData, err |-> "nil"]
    /\ findFieldUint32(LastHeader, KeyConn) = [v |-> c, err |-> "nil"]

ConnIds == {1, 2}

\* the conn id of a returned record
ConnOf(rec) == findFieldUint32(rec.hdr, KeyConn).v

\* the headers RecordConnection.ConnectionHeader can yield for a returned
\* Connection record
HeadersOf(rec) ==
    {c.hdr : c \in ConnectionHeader([Raw |-> [half |-> initialRecordSize \div 2,
                                              data |-> Record(rec.hdr, rec.data)],
                                     HeaderLen |-> Len(rec.hdr),
                                     DataLen |-> Len(rec.data)])}

\* C2: no call of Read parses a record from the primary reader while bytes
\* of the body of a chunk whose reader was installed before are unread.
C2_ChunkDrainedFirst ==
    \A i \in 1..Len(out) : out[i].primary => ~out[i].undrained

\* C3: once a call of Read has returned an error other than io.EOF, every
\* later call returns that error and no record.
C3_ErrorIsSticky ==
    \A i \in 1..Len(out) : \A j \in (i + 1)..Len(out) :
        out[i].err \notin {"nil", "EOF"} =>
            out[j].err = out[i].err /\ out[j].rec = NilRecord

\* the offsets of a bag at which a record, outer or inner, ends, and those
\* at which the outer or an inner stream begins
RECURSIVE RecordEnds(_, _)
RecordEnds(items, base) ==
    IF Len(items) = 0 THEN {base}
    ELSE LET it == Head(items)
             body == base + lenInBytes + Len(ItemHeader(it)) + lenInBytes
             end == base + Len(EncodeItem(it))
         IN  {base} \cup (IF IsChunk(it) THEN RecordEnds(it.inner, body) ELSE {})
                    \cup RecordEnds(Tail(items), end)

\* C4: when the bag ends inside a record, the call of Read that meets the
\* end returns a truncation error and not io.EOF.
C4_TruncationIsNotEOF ==
    (/\ file.pre = 1
     /\ file.cut >= Len(versionLine)
     /\ Len(stream) \notin RecordEnds(file.items, Len(versionLine)))
        => \A i \in 1..Len(out) :
              (\A j \in 1..(i - 1) : out[j].err = "nil") => out[i].err # "EOF"

\* C5: a call of Read that reads a MessageData record of an unregistered
\* conn id returns errNotFoundConnectionHeader and no record and leaves the
\* registry unchanged; of a registered conn id, it returns the record with
\* exactly the registry's entry of that id attached.
C5_MessageDataLookup ==
    [][\A c \in ConnIds :
          ReadMessageData(c) =>
              /\ conns' = conns
              /\ IF c \in DOMAIN conns
                 THEN /\ LastOut.err = "nil"
                      /\ LastOut.rec.kind = "MessageData"
                      /\ LastOut.rec.connHdr = conns[c]
                 ELSE /\ LastOut.err = "errNotFoundConnectionHeader"
                      /\ LastOut.rec = NilRecord]_vars

\* both branches were taken: a MessageData of an unregistered conn id was
\* refused and one of a registered conn id returned with its header
C5_Witness ==
    \E i, j, k \in 1..Len(out) :
        /\ i < j /\ j < k
        /\ out[i].err = "errNotFoundConnectionHeader"
        /\ out[i].rec = NilRecord
        /\ out[j].rec.kind = "Connection"
        /\ out[k].rec.kind = "MessageData"
        /\ ConnOf(out[k].rec) \in DOMAIN conns
        /\ out[k].rec.connHdr = conns[ConnOf(out[k].rec)]
        /\ ~out[k].rec.connHdr.nil

\* C6: a Connection record of an already registered conn id replaces the
\* entry of that id by its own header; the entries of the other ids are not
\* changed, no entry is ever removed, and every MessageData read afterwards
\* carries the header of the latest Connection record of its conn id.
C6_Step ==
    /\ \A d \in DOMAIN conns : d \in DOMAIN conns'
    /\ \A d \in DOMAIN conns' :
          (d \notin DOMAIN conns \/ conns'[d] # conns[d]) =>
              /\ ReadStep
              /\ LastOut.rec.kind = "Connection"
              /\ ConnOf(LastOut.rec) = d
    /\ (ReadStep /\ LastOut.rec.kind = "Connection") =>
          /\ ConnOf(LastOut.rec) \in DOMAIN conns'
          /\ conns'[ConnOf(LastOut.rec)] \in HeadersOf(LastOut.rec)

C6_Latest ==
    \A j \in 1..Len(out) :
        out[j].rec.kind = "MessageData" =>
            LET before == {i \in 1..(j - 1) : /\ out[i].rec.kind = "Connection"
                                              /\ ConnOf(out[i].rec) = ConnOf(out[j].rec)}
            IN  /\ before # {}
                /\ out[j].rec.connHdr \in
                      HeadersOf(out[CHOOSE i \in before : \A k \in before : k <= i].rec)

C6_ReRegistration == []C6_Latest /\ [][C6_Step]_vars

\* a conn id was registered twice with different headers and a MessageData
\* read afterwards carries the second
C6_Witness ==
    \E i, j, k \in 1..Len(out) :
        /\ i < j /\ j < k
        /\ out[i].rec.kind = "Connection"
        /\ out[j].rec.kind = "Connection"
        /\ ConnOf(out[i].rec) = ConnOf(out[j].rec)
        /\ HeadersOf(out[i].rec) \cap HeadersOf(out[j].rec) = {}
        /\ out[k].rec.kind = "MessageData"
        /\ ConnOf(out[k].rec) = ConnOf(out[j].rec)
        /\ out[k].rec.connHdr \in HeadersOf(out[j].rec)
        /\ conns[ConnOf(out[j].rec)] \in HeadersOf(out[j].rec)

\* C7: the registry is shared by the outer stream and the chunk streams: a
\* MessageData record read after a Connection record of its conn id has been
\* returned, from whichever stream either was read, is returned with a
\* header of such a Connection record.
C7_SharedRegistry ==
    [][\A c \in ConnIds :
          LET before == {i \in 1..Len(out) : /\ out[i].rec.kind = "Connection"
                                             /\ ConnOf(out[i].rec) = c}
          IN  (ReadMessageData(c) /\ before # {}) =>
                  /\ LastOut.err = "nil"
                  /\ LastOut.rec.kind = "MessageData"
                  /\ \E i \in before : LastOut.rec.connHdr \in HeadersOf(out[i].rec)]_vars

\* a Connection read from a chunk serves a MessageData of a later chunk, and
\* the registry then holds an entry
C7_Witness ==
    \E i, k, j \in 1..Len(out) :
        /\ i < k /\ k < j
        /\ out[i].rec.kind = "Connection" /\ ~out[i].primary
        /\ out[k].rec.kind = "Chunk"
        /\ out[j].rec.kind = "MessageData" /\ ~out[j].primary
        /\ ConnOf(out[j].rec) = ConnOf(out[i].rec)
        /\ out[j].rec.connHdr \in HeadersOf(out[i].rec)

\* the message_definition of a Connection record's data does not parse
ParseFails(data) ==
    LET md == findField(data, KeyMessageDefinition)
    IN  /\ md.err = "nil"
        /\ \E u \in unmarshall(EmptyDefinition, md.value) : u.err # "nil"

\* every complex field of a header is bound to a definition
Resolved(hdr) ==
    \A m \in 1..Len(hdr.MessageDefinition.msgs) :
        \A f \in 1..Len(hdr.MessageDefinition.msgs[m].Fields) :
            hdr.MessageDefinition.msgs[m].Fields[f].Type = "Complex" =>
                hdr.MessageDefinition.msgs[m].Fields[f].MsgType # 0

\* C8: a Connection record whose message_definition fails to parse is not
\* returned and not registered: every header of the registry has all its
\* complex fields resolved.
C8_FailedDefinitionRejected ==
    /\ \A i \in 1..Len(out) : out[i].rec.kind = "Connection" => ~ParseFails(out[i].rec.data)
    /\ \A c \in DOMAIN conns : Resolved(conns[c])

\* C9: a record whose header has no op field, an op field of empty value or
\* an op byte outside the six record types makes Read return an error and no
\* record; it does not crash.
C9_BadOpIsAnError ==
    [][(/\ ReadHeader
        /\ LET op == Op(LastHeader)
           IN  \/ op.err # "nil"
               \/ op.op \notin {OpBagHeader, OpChunk, OpConnection, OpMessageData,
                                OpIndexData, OpChunkInfo})
          => /\ LastOut.err \notin {"nil", "panic"}
             /\ LastOut.rec = NilRecord]_vars

\* C10: the version check passes only for a stream that begins with the 13
\* bytes "#ROSBAG V2.0\n".
C10_ExactVersionLine ==
    checkedVersion => Take(stream, Len(versionLine)) = versionLine

\* the call read the header and the datalen of a Chunk record whose
\* compression is none of none, bz2 and lz4
ReadUnsupportedChunk ==
    /\ ReadHeader
    /\ Op(LastHeader) = [op |-> OpChunk, err |-> "nil"]
    /\ findField(LastHeader, KeyCompression).err = "nil"
    /\ findField(LastHeader, KeyCompression).value
          \notin {CompressionNone, CompressionBZ2, CompressionLZ4}

\* C11: a Chunk record of a compression other than none, bz2 and lz4 makes
\* Read return errUnsupportedCompression and no record; no chunk reader is
\* installed (the one in place, if any, is the one that was there, less the
\* bytes read from it) and the record's buffer is back in the pool.
C11_UnsupportedCompression ==
    [][ReadUnsupportedChunk =>
          /\ LastOut.err = "errUnsupportedCompression"
          /\ LastOut.rec = NilRecord
          /\ chunks' = chunks
          /\ IF LastOut.primary THEN chunkReader' = NilReader
             ELSE chunkReader' = [chunkReader EXCEPT !.N = @ - (reader' - reader)]
          /\ recordPool'[LastOut.got] =
                IF LastOut.got \in DOMAIN recordPool THEN recordPool[LastOut.got] ELSE 1]_vars

\* a chunk of compression "zip" was refused while the reader of the chunk
\* that holds it stayed in place, and its buffer is pooled
C11_Witness ==
    /\ Len(out) = 2
    /\ out[1].rec.kind = "Chunk"
    /\ out[2].err = "errUnsupportedCompression"
    /\ ~out[2].primary
    /\ chunkReader.kind = "none"
    /\ Len(chunks) = 1
    /\ recordPool[out[2].got] = 1

\* C12: while no record is closed twice, a record that was returned and is
\* not closed keeps its buffer: no later Read acquires it, it is not in the
\* pool, and its header and data are the bytes it was returned with.
C12_BufferOwned ==
    (\A i \in 1..Len(out) : closed[i] <= 1) =>
        \A i \in 1..Len(out) :
            (out[i].rec.kind # "nil" /\ closed[i] = 0) =>
                /\ \A j \in (i + 1)..Len(out) : out[j].got # out[i].rec.base
                /\ recordPool[out[i].rec.base] = 0
                /\ Header(heap[out[i].rec.base]) = out[i].rec.hdr
                /\ out[i].rec.kind # "Chunk" => Data(heap[out[i].rec.base]) = out[i].rec.data

\* a closed record's buffer was reused by a record that is still open after
\* a further Read, and a record that was never closed is open too
C12_Witness ==
    \E i, j \in 1..Len(out) :
        /\ i < j /\ j < Len(out)
        /\ out[i].rec.kind # "nil" /\ closed[i] = 1
        /\ out[j].rec.kind # "nil" /\ closed[j] = 0
        /\ out[j].rec.base = out[i].rec.base
        /\ out[j].rec.hdr # out[i].rec.hdr
        /\ Header(heap[out[j].rec.base]) = out[j].rec.hdr
        /\ out[Len(out)].rec.kind # "nil"
        /\ out[Len(out)].rec.base # out[j].rec.base

\* the header holds more than one field of the key
Duplicated(hdr, key) ==
    Cardinality({i \in 1..Len(iterateHeaderFields(hdr).fields) :
                    iterateHeaderFields(hdr).fields[i].key = key}) > 1

\* C21: a record whose header holds the op key or the conn key more than
\* once is reported as an error, by Read or by the accessor of that key on
\* the returned record; no occurrence is used silently.
C21_DuplicateKeyIsAnError ==
    [][\A key \in {KeyOp, KeyConn} :
          (ReadHeader /\ Duplicated(LastHeader, key)) =>
              \/ LastOut.err # "nil"
              \/ findField(LastOut.rec.hdr, key).err # "nil"]_vars

\* the buffers that are not in the pool, and the records that were returned
\* and not closed since
OutsidePool == {a \in DOMAIN heap : recordPool[a] = 0}
OpenRecords == {i \in 1..Len(out) : out[i].rec.kind # "nil" /\ closed[i] = 0}

\* C28: a call of Read that returns an error after it acquired a buffer
\* returns the buffer to the pool, and a call that returns a record leaves
\* its buffer with the record: while no record is closed twice, the buffers
\* outside the pool are as many as the open records, each the buffer of one
\* of them.
C28_Balance ==
    ((\A i \in 1..Len(out) : closed[i] <= 1) /\ ~Crashed) =>
        /\ Cardinality(OutsidePool) = Cardinality(OpenRecords)
        /\ OutsidePool = {out[i].rec.base : i \in OpenRecords}

C28_ErrorRecycles ==
    (ReadStep /\ LastOut.got # 0 /\ LastOut.err \notin {"nil", "panic"}) =>
        recordPool'[LastOut.got] =
            IF LastOut.got \in DOMAIN recordPool THEN recordPool[LastOut.got] ELSE 1

C28_BuffersAccounted == []C28_Balance /\ [][C28_ErrorRecycles]_vars

\* a record was closed, another is open, and a call that had acquired a
\* buffer returned an error: one buffer is outside the pool
C28_Witness ==
    /\ \E i, j, k \in 1..Len(out) :
          /\ out[i].rec.kind # "nil" /\ closed[i] = 1
          /\ out[j].rec.kind # "nil" /\ closed[j] = 0
          /\ out[k].err \notin {"nil", "panic"} /\ out[k].got # 0
          /\ recordPool[out[k].got] > 0
    /\ Cardinality(OutsidePool) = 1
    /\ Cardinality(OpenRecords) = 1

\* C29: whatever calls of Close are made, also a second one on a record and
\* one on a record whose buffer a newer record has got, no buffer of an
\* open record is in the pool and no two open records have the same buffer.
C29_CloseIsSafe ==
    /\ \A i \in OpenRecords : recordPool[out[i].rec.base] = 0
    /\ \A i, j \in OpenRecords : i # j => out[i].rec.base # out[j].rec.base

\* the inner record that begins at offset p of stream, in a chunk body of
\* which n bytes are left, n > 0, is cut by the end of the body: in hdrlen,
\* in the header that hdrlen declares, in datalen, or in the data that
\* datalen declares
CutByChunkEnd(p, n) ==
    IF n < lenInBytes THEN TRUE
    ELSE LET hdrlen == Uint32(SubSeq(stream, p + 1, p + lenInBytes))
             q == p + lenInBytes + hdrlen
         IN  IF n < 2 * lenInBytes + hdrlen THEN TRUE
             ELSE n < 2 * lenInBytes + hdrlen + Uint32(SubSeq(stream, q + 1, q + lenInBytes))

\* a call of Read is made while a chunk reader of compression none is
\* installed, and the bytes the reader is limited to are in the stream
ChunkActive ==
    /\ ReadStep
    /\ chunkReader.kind = "none"
    /\ reader + chunkReader.N <= Len(stream)

\* the call is served by the chunk reader and takes no more than the bytes
\* left of the chunk body
C30_WithinBody ==
    (ChunkActive /\ ~LastOut.primary) => reader' <= reader + chunkReader.N

\* an inner record that is not a Chunk record and is cut by the end of the
\* chunk body makes the call return an error
C30_CutIsAnError ==
    (/\ ChunkActive
     /\ chunkReader.N > 0
     /\ CutByChunkEnd(reader, chunkReader.N)
     /\ LastOut.rec.kind # "Chunk") => LastOut.err # "nil"

\* after a Chunk record of datalen 0 the call returns what decodeRecord makes
\* of the primary reader
C30_EmptyChunk ==
    (/\ ChunkActive
     /\ Len(out) > 0
     /\ out[Len(out)].rec.kind = "Chunk"
     /\ chunks[Len(chunks)].start = chunks[Len(chunks)].end) =>
        /\ LastOut.primary
        /\ reader + chunkReader.N = reader

\* C30: while a chunk reader of compression none is installed, a call of
\* Read that it serves consumes no more than the bytes left of the chunk
\* body, an inner record that is cut by the end of the chunk body makes the
\* call return an error, and after a Chunk record of datalen 0 the call
\* returns the record that follows in the primary reader.
C30_ChunkBounded ==
    [][C30_WithinBody /\ C30_CutIsAnError /\ C30_EmptyChunk]_vars

(***************************************************************************)
(* The claims about the message decoder, checked under SpecMessage.        *)
(***************************************************************************)
\* the latest call of ViewAs, once one was made
View == decoded[Len(decoded)]
Viewing == Len(decoded) > 0
Msgs == msgDef[1].def.msgs

\* the body of the call is the encoding of a value of the definition
WholeBody == View.raw \in Wires(Msgs)
IntoMapTarget == View.data.type.kind = "Map"
IntoMirror == View.data.type.name = "struct"

\* C13: a body that is the wire encoding of a value of the definition is
\* decoded without an error and with no bytes left, into a map and into the
\* struct that mirrors the definition alike, under either slice table.
C13_EncodingConsumed ==
    (Viewing /\ WholeBody /\ (IntoMapTarget \/ IntoMirror))
        => (View.res.err = "nil" /\ View.res.raw = <<>>)

\* a dynamic array of two messages and a fixed one, decoded into the struct
C13_Witness ==
    /\ Viewing /\ WholeBody /\ IntoMirror
    /\ Len(Msgs[1].Fields) = 2
    /\ Msgs[1].Fields[1].Type = "Complex" /\ Msgs[1].Fields[1].IsArray
    /\ Len(View.raw) = 7
    /\ View.res.err = "nil" /\ View.res.raw = <<>>
    /\ Len(View.res.data.v[1].v) = 2


\* the value a of a struct target and the value b of a map target agree:
\* a struct and a map on every field of the struct that the map has, two
\* slices element by element, any other two values in type and payload
RECURSIVE Same(_, _)
Same(a, b) ==
    IF a.type.kind = "Struct" /\ b.type.kind = "Map"
    THEN \A i \in 1..Len(a.type.fields) :
            a.type.fields[i].tag \in DOMAIN b.v => Same(a.v[i], b.v[a.type.fields[i].tag])
    ELSE IF a.type.kind = "Slice" /\ b.type.kind = "Slice"
    THEN Len(a.v) = Len(b.v) /\ \A i \in 1..Len(a.v) : Same(a.v[i], b.v[i])
    ELSE a.type.name = b.type.name /\ a.v = b.v

\* the record was viewed into a struct none of whose fields is retyped, and
\* then into the map
StructThenMap ==
    /\ Len(decoded) = 2
    /\ decoded[1].data.type.name \in {"struct", "struct'"}
    /\ \A i \in 1..Len(decoded[1].data.type.fields) :
            decoded[1].data.type.fields[i].tag = ExtraField.tag
            \/ decoded[1].data.type.fields[i].type.name
                    = StructFor(Msgs, 1).fields[i].type.name
    /\ decoded[2].data.type.kind = "Map"

\* C14: the same definition and body decoded into a struct and into a map
\* give the same error and leave the same bytes, and on success the fields
\* the two have in common hold equal values.
C14_StructAndMapAgree ==
    StructThenMap =>
        /\ decoded[1].res.err = decoded[2].res.err
        /\ decoded[1].res.raw = decoded[2].res.raw
        /\ decoded[1].res.err = "nil" => Same(decoded[1].res.data, decoded[2].res.data)

\* a string of two bytes, a time and a duration, viewed both ways
C14_Witness ==
    /\ StructThenMap
    /\ decoded[1].res.err = "nil"
    /\ decoded[1].data.type.name = "struct"
    /\ Len(decoded[1].res.data.v) = 3
    /\ Msgs[1].Fields[1].Type = "String" /\ Msgs[1].Fields[1].Value.nil
    /\ decoded[1].res.data.v[1].v = <<65, 65>>
    /\ decoded[2].res.data.v[<<116>>].type.name = "time.Time"
    /\ decoded[1].res.data.v[2].v = decoded[2].res.data.v[<<116>>].v


\* the definitions without their constants
IsConst(field) == ~field.Value.nil
IsField(field) == field.Value.nil
StripConsts(msgs) ==
    [d \in DOMAIN msgs |-> [msgs[d] EXCEPT !.Fields = SelectSeq(@, IsField)]]

\* what a target holds under the name k
Held(data, k) ==
    IF data.type.kind = "Map" THEN data.v[k] ELSE data.v[createFieldMapper(data.type)[k]]

\* the call of View made with the definition stripped of its constants
ViewStripped ==
    decodeMessageData(View.fastMode, StripConsts(Msgs), 1, View.raw, View.data,
                      ~IntoMapTarget)

\* C15: a constant field is stored under its name with the value parsed from
\* the definition and takes no bytes: the call ends with the error and the
\* remaining bytes of the call on the definition without its constants, and
\* on success every other field holds what that call gives it.
C15_ConstTakesNoBytes ==
    (Viewing /\ (IntoMapTarget \/ IntoMirror)) =>
        /\ View.res.err = ViewStripped.err
        /\ View.res.raw = ViewStripped.raw
        /\ View.res.err = "nil" =>
                \A i \in 1..Len(Msgs[1].Fields) :
                    IF IsConst(Msgs[1].Fields[i])
                    THEN Held(View.res.data, Msgs[1].Fields[i].Name)
                            = Value(BasicType(Msgs[1].Fields[i].Type),
                                    Msgs[1].Fields[i].Value)
                    ELSE Held(View.res.data, Msgs[1].Fields[i].Name)
                            = Held(ViewStripped.data, Msgs[1].Fields[i].Name)

\* "uint8 K=7" before "uint8 a": K holds 7 and a the first byte of the body
C15_Witness ==
    /\ Viewing /\ IntoMirror /\ View.res.err = "nil"
    /\ Len(Msgs[1].Fields) = 2
    /\ IsConst(Msgs[1].Fields[1]) /\ IsField(Msgs[1].Fields[2])
    /\ View.raw = <<65>>
    /\ View.res.raw = <<>>
    /\ View.res.data.v[1].v.digits = <<55>>
    /\ View.res.data.v[2].v = 65


\* the record was viewed into the struct that has ExtraField in place of the
\* field i of the definition, and then into the mirroring struct
LackingThenMirror(i) ==
    /\ Len(decoded) = 2
    /\ i \in 1..Len(decoded[1].data.type.fields)
    /\ decoded[1].data.type.fields[i].tag = ExtraField.tag
    /\ decoded[2].data.type.name = "struct"

RetypedAt(i) ==
    /\ Viewing
    /\ View.data.type.kind = "Struct"
    /\ i \in 1..Len(View.data.type.fields)
    /\ Msgs[1].Fields[i].Type # "Complex"
    /\ View.data.type.fields[i].tag = Msgs[1].Fields[i].Name
    /\ View.data.type.fields[i].type.name # FieldType(Msgs, Msgs[1].Fields[i]).name

\* C17: when the type of a struct field disagrees with the Go type decoded
\* for the definition field of its name, the call returns an error: it does
\* not crash and the struct field keeps its value.
C17_MismatchIsAnError ==
    \A i \in 1..MaxFields :
        RetypedAt(i) =>
            /\ View.res.err \notin {"nil", "panic"}
            /\ View.res.data.v[i] = View.data.v[i]


\* the body of the call is an encoding of the definition with bytes missing
\* at its end
ShortBody ==
    \E w \in Wires(Msgs) :
        Len(View.raw) < Len(w) /\ View.raw = Take(w, Len(View.raw))

\* C18: a body shorter than the fields of the definition require makes the
\* call return errInvalidFormat, under the fast and under the slow slice
\* table.
C18_ShortBodyIsInvalidFormat ==
    (Viewing /\ ShortBody /\ (IntoMapTarget \/ IntoMirror))
        => View.res.err = "errInvalidFormat"


\* the definition texts whose constant cannot be converted to the kind of
\* its field, or stands on a time, duration or message field
BadConstants == {MsgDefs[i] : i \in 13..19}

\* C19: unmarshall returns an error for a constant whose text cannot be
\* converted to the kind of its field and for a constant on a time, a
\* duration or a message field.
C19_BadConstantRejected ==
    (Len(msgDef) = 1 /\ msgDefRaw \in BadConstants)
        => msgDef[1].err \notin {"nil", "panic"}


(***************************************************************************)
(* The claim about iterateHeaderFields, checked under SpecHeader.          *)
(***************************************************************************)
\* the keys (without '=') and the values a field of a header of the model
\* can have
FieldKeys == SeqsUpTo({97}, MaxFieldLen)
FieldValues == SeqsUpTo({61, 97, 98}, MaxFieldLen)

\* the (key, value) pairs whose field, as Field lays it out, starts h
Leading(h) ==
    {kv \in FieldKeys \X FieldValues :
        /\ Len(Field(kv[1], kv[2])) <= Len(h)
        /\ Take(h, Len(Field(kv[1], kv[2]))) = Field(kv[1], kv[2])}

\* h is a concatenation of fields
RECURSIVE Concatenation(_)
Concatenation(h) ==
    \/ h = <<>>
    \/ \E kv \in Leading(h) : Concatenation(Drop(h, Len(Field(kv[1], kv[2]))))

\* the fields of a concatenation of fields, in order
RECURSIVE FieldsOf(_)
FieldsOf(h) ==
    IF h = <<>> THEN <<>>
    ELSE LET kv == CHOOSE x \in Leading(h) :
                        Concatenation(Drop(h, Len(Field(x[1], x[2]))))
         IN  <<[key |-> kv[1], value |-> kv[2]]>>
             \o FieldsOf(Drop(h, Len(Field(kv[1], kv[2]))))

\* the sum of the widths 4 + fieldlen of the fields visited
RECURSIVE Widths(_)
Widths(fields) ==
    IF Len(fields) = 0 THEN 0
    ELSE lenInBytes + Len(Head(fields).key) + 1 + Len(Head(fields).value)
         + Widths(Tail(fields))

\* what is left of the header behind the fields visited
Unvisited == Drop(header, Widths(visited[1].fields))

\* the three ways in which the bytes r are no field
NoField(r) ==
    \/ Len(r) < lenInBytes
    \/ Len(r) - lenInBytes < Uint32(r)
    \/ headerFieldDelimiter
            \notin {r[j] : j \in (lenInBytes + 1)..(lenInBytes + Uint32(r))}

\* C20: with a visitor that always continues, iterateHeaderFields returns
\* nil exactly when the header is a concatenation of fields; it then has
\* visited the fields in order, each with its key and value, and their
\* widths 4 + fieldlen add up to the length of the header; it returns an
\* error exactly when, behind the fields visited, bytes are left that hold
\* no length, fewer bytes than the length, or no '=' among them.
C20_HeaderWalk ==
    Len(visited) = 1 =>
        /\ visited[1].err = "nil" <=> Concatenation(header)
        /\ visited[1].err = "nil" =>
                /\ visited[1].fields = FieldsOf(header)
                /\ Widths(visited[1].fields) = Len(header)
        /\ visited[1].err # "nil" <=> (Unvisited # <<>> /\ NoField(Unvisited))

\* "a=b" followed by "a==": two visits, the second with the value "="
C20_Witness ==
    /\ Len(visited) = 1
    /\ header = Field(<<97>>, <<98>>) \o Field(<<97>>, <<61>>)
    /\ visited[1].err = "nil"
    /\ visited[1].fields = <<[key |-> <<97>>, value |-> <<98>>],
                             [key |-> <<97>>, value |-> <<61>>]>>

(***************************************************************************)
(* decodeRecord at the width of its lengths.  off, HeaderLen, DataLen and  *)
(* the argument of grow are uint32: their sums and 2*requiredSize are      *)
(* taken modulo 2^32.  A uint32 is kept as its high and low 16-bit halves. *)
(* The call is given the hdrlen and the datalen that the stream holds, the *)
(* number of bytes the stream has (avail) and what Op() finds in a header  *)
(* that was read whole (op: a record type, "bad" for an op byte of no      *)
(* type, "none" for a header without op); of the record only the length    *)
(* of Raw is kept.                                                         *)
(***************************************************************************)
Small(n) == <<0, n>>

Add32(a, b) ==
    <<(a[1] + b[1] + ((a[2] + b[2]) \div 65536)) % 65536, (a[2] + b[2]) % 65536>>

Less32(a, b) == a[1] < b[1] \/ (a[1] = b[1] /\ a[2] < b[2])

\* a - b, for b <= a
Sub32(a, b) ==
    IF a[2] >= b[2] THEN <<a[1] - b[1], a[2] - b[2]>>
    ELSE <<a[1] - b[1] - 1, a[2] + 65536 - b[2]>>

\* RecordBase.grow, on len(Raw): make([]byte, 2*requiredSize)
grow32(rawLen, requiredSize) ==
    IF Less32(rawLen, requiredSize) THEN Add32(requiredSize, requiredSize) ELSE rawLen

\* whether Raw[lo:hi] is within Raw, whose capacity is its length; the
\* slice expression panics otherwise
InRange(rawLen, lo, hi) == ~Less32(hi, lo) /\ ~Less32(rawLen, hi)

\* io.ReadFull into a slice of n bytes when the reader has avail bytes
ReadFull32(n, avail) ==
    IF n = Small(0) \/ (n[1] = 0 /\ n[2] <= avail) THEN "nil"
    ELSE IF avail = 0 THEN "EOF" ELSE "ErrUnexpectedEOF"

Framed(kind, err, rawLen, HeaderLen, DataLen) ==
    [kind |-> kind, err |-> err, rawLen |-> rawLen, HeaderLen |-> HeaderLen,
     DataLen |-> DataLen]

\* the data: record.Raw[off:off+record.DataLen] after grow(off + DataLen)
DataStage(a, rawLen, off) ==
    IF ~InRange(rawLen, off, Add32(off, a.datalen))
    THEN Framed("nil", "panic", rawLen, a.hdrlen, a.datalen)
    ELSE IF ReadFull32(Sub32(Add32(off, a.datalen), off), a.avail - 8 - a.hdrlen[2]) # "nil"
    THEN Framed("nil", ReadFull32(Sub32(Add32(off, a.datalen), off),
                                  a.avail - 8 - a.hdrlen[2]),
                rawLen, a.hdrlen, a.datalen)
    ELSE IF a.op = "bad" THEN Framed("nil", "errInvalidOp", rawLen, a.hdrlen, a.datalen)
    ELSE Framed(a.op, "nil", rawLen, a.hdrlen, a.datalen)

\* the datalen: record.Raw[off:off+lenInBytes] after grow(off + lenInBytes);
\* a Chunk record is returned without its data
DataLenStage(a, rawLen, off) ==
    IF ~InRange(rawLen, off, Add32(off, Small(lenInBytes)))
    THEN Framed("nil", "panic", rawLen, a.hdrlen, Small(0))
    ELSE IF ReadFull32(Small(lenInBytes), a.avail - 4 - a.hdrlen[2]) # "nil"
    THEN Framed("nil", ReadFull32(Small(lenInBytes), a.avail - 4 - a.hdrlen[2]),
                rawLen, a.hdrlen, Small(0))
    ELSE IF a.op = "Chunk" THEN Framed("Chunk", "nil", rawLen, a.hdrlen, a.datalen)
    ELSE DataStage(a, grow32(rawLen, Add32(Add32(off, Small(lenInBytes)), a.datalen)),
                   Add32(off, Small(lenInBytes)))

\* the header: record.Raw[off:off+record.HeaderLen] after
\* grow(off + HeaderLen), then Op()
HeaderStage(a, rawLen, off) ==
    IF ~InRange(rawLen, off, Add32(off, a.hdrlen))
    THEN Framed("nil", "panic", rawLen, a.hdrlen, Small(0))
    ELSE IF ReadFull32(Sub32(Add32(off, a.hdrlen), off), a.avail - 4) # "nil"
    THEN Framed("nil", ReadFull32(Sub32(Add32(off, a.hdrlen), off), a.avail - 4),
                rawLen, a.hdrlen, Small(0))
    ELSE IF a.op = "none"
    THEN Framed("nil", "field doesn't exist", rawLen, a.hdrlen, Small(0))
    ELSE DataLenStage(a, grow32(rawLen, Add32(Add32(off, a.hdrlen), Small(lenInBytes))),
                      Add32(off, a.hdrlen))

\* Decoder.decodeRecord on a record taken new from the pool
decodeRecord32(a) ==
    IF ReadFull32(Small(lenInBytes), a.avail) # "nil"
    THEN Framed("nil", ReadFull32(Small(lenInBytes), a.avail), Small(initialRecordSize),
                Small(0), Small(0))
    ELSE HeaderStage(a, grow32(grow32(Small(initialRecordSize), Small(lenInBytes)),
                               Add32(Small(lenInBytes), a.hdrlen)),
                     Small(lenInBytes))

\* len(record.Header()) and len(record.Data()) of a returned record: the
\* length of the slice, or "panic" when the slice expression is out of range
Header32(r) ==
    IF InRange(r.rawLen, Small(lenInBytes), Add32(Small(lenInBytes), r.HeaderLen))
    THEN [len |-> Sub32(Add32(Small(lenInBytes), r.HeaderLen), Small(lenInBytes)),
          err |-> "nil"]
    ELSE [len |-> Small(0), err |-> "panic"]

Data32(r) ==
    IF InRange(r.rawLen, Add32(Small(2 * lenInBytes), r.HeaderLen),
               Add32(Add32(Small(2 * lenInBytes), r.HeaderLen), r.DataLen))
    THEN [len |-> Sub32(Add32(Add32(Small(2 * lenInBytes), r.HeaderLen), r.DataLen),
                        Add32(Small(2 * lenInBytes), r.HeaderLen)),
          err |-> "nil"]
    ELSE [len |-> Small(0), err |-> "panic"]

\* the lengths a stream can hold: small ones, those around the initial size
\* of Raw, around 2^31 and around 2^32
Lengths ==
    {<<0, 0>>, <<0, 1>>, <<0, 5>>, <<0, 4088>>, <<0, 4089>>, <<0, 4093>>,
     <<32767, 65527>>, <<32767, 65531>>, <<32767, 65532>>, <<32768, 0>>,
     <<65535, 65527>>, <<65535, 65532>>, <<65535, 65535>>}

\* the numbers of bytes of the stream
Avails == {0, 3, 4, 7, 8, 9, 13, 14, 18, 8200}

Ops == {"none", "bad", "IndexData", "Chunk"}

DecodeRecord ==
    /\ Len(result) = 0
    /\ result' = <<decodeRecord32(args)>>
    /\ UNCHANGED <<msgDefRaw, msgDef, decoded, header, visited, args>>
    /\ UNCHANGED decoderVars

InitFrame ==
    /\ NoDecoder
    /\ NoMessage
    /\ NoHeader
    /\ args \in [hdrlen : Lengths, datalen : Lengths, avail : Avails, op : Ops]
    /\ result = <<>>

NextFrame == DecodeRecord

SpecFrame == InitFrame /\ [][NextFrame]_vars

(***************************************************************************)
(* The slice decoders of the kinds wider than a byte on their own: the     *)
(* aliasing decoder of the fast table and the copying decoder of the slow  *)
(* table are given the same bytes and the same length (-1 for a dynamic    *)
(* array).                                                                 *)
(***************************************************************************)
WideKinds ==
    {"Int16", "Uint16", "Int32", "Uint32", "Int64", "Uint64", "Float32", "Float64"}

\* the bytes: a length prefix of 0..MaxLength or none, then bytes of one
\* value, and what is left of them when the last bytes are missing
SliceInputs ==
    UNION {{Take(pre \o Rep(<<b>>, 8 * MaxLength), k) :
                k \in 0..(Len(pre) + 8 * MaxLength)} :
            pre \in {<<>>} \cup {PutUint32(n) : n \in 0..MaxLength}, b \in WireBytes}

DecodeSlice ==
    /\ Len(result) = 0
    /\ result' = <<[fast |-> fieldDecodeBasicSlice(args.fieldType, args.raw, args.length),
                    slow |-> fieldDecodeSliceSlow(args.fieldType, args.raw, args.length)]>>
    /\ UNCHANGED <<msgDefRaw, msgDef, decoded, header, visited, args>>
    /\ UNCHANGED decoderVars

InitSlice ==
    /\ NoDecoder
    /\ NoMessage
    /\ NoHeader
    /\ args \in [fieldType : WideKinds, raw : SliceInputs, length : -1..MaxLength]
    /\ result = <<>>

NextSlice == DecodeSlice

SpecSlice == InitSlice /\ [][NextSlice]_vars

(***************************************************************************)
(* The claims about unmarshall, checked under SpecDefinition.  The texts   *)
(* hold one field or one MSG: line per line, so that the fields of the     *)
(* parsed definitions, in a row, are the field lines of the text.          *)
(***************************************************************************)
\* the lines of msgDefRaw: the text ends with a newline
Lines == Take(SplitLines(msgDefRaw), Len(SplitLines(msgDefRaw)) - 1)

RECURSIVE FieldLines(_)
FieldLines(lines) ==
    IF Len(lines) = 0 THEN <<>>
    ELSE (IF IndexByte(Head(lines), 58) = -1 THEN <<Head(lines)>> ELSE <<>>)
         \o FieldLines(Tail(lines))

\* the type token of a field line: the bytes before the space, up to a '['
TypeToken(line) ==
    IF IndexByte(line, 91) # -1 /\ IndexByte(line, 91) < IndexByte(line, 32)
    THEN Take(line, IndexByte(line, 91))
    ELSE Take(line, IndexByte(line, 32))

\* the fields of the definitions, in a row, each with the index of its
\* definition
RECURSIVE FlatFields(_, _)
FlatFields(msgs, m) ==
    IF m > Len(msgs) THEN <<>>
    ELSE msgs[m].Fields \o FlatFields(msgs, m + 1)

\* the first nested definition, in the order of the MSG: lines, whose type
\* ends with the token; 0 when there is none
FirstNested(msgs, token) ==
    IF \E m \in 2..Len(msgs) : HasSuffix(msgs[m].Type, token)
    THEN CHOOSE m \in 2..Len(msgs) :
            /\ HasSuffix(msgs[m].Type, token)
            /\ \A k \in 2..(m - 1) : ~HasSuffix(msgs[k].Type, token)
    ELSE 0

Parse == msgDef[1]
ParsedFields == FlatFields(Parse.def.msgs, 1)
ComplexLines ==
    {k \in 1..Len(FieldLines(Lines)) :
        TypeToken(FieldLines(Lines)[k]) \notin DOMAIN messageFieldTypeMap}

\* C22: when unmarshall returns nil, every complex field is bound to the
\* first nested definition, in the order of the MSG: lines, whose type has
\* the field's type token as a suffix, never to the primary definition; when
\* a complex field has no such nested definition, unmarshall returns
\* errUnresolvedMsgType.
C22_BoundToFirstNested ==
    Len(msgDef) = 1 =>
        IF \A k \in ComplexLines :
              FirstNested(Parse.def.msgs, TypeToken(FieldLines(Lines)[k])) # 0
        THEN /\ Parse.err = "nil"
             /\ \A k \in ComplexLines :
                   /\ ParsedFields[k].Type = "Complex"
                   /\ ParsedFields[k].MsgType =
                         FirstNested(Parse.def.msgs, TypeToken(FieldLines(Lines)[k]))
        ELSE Parse.err = "errUnresolvedMsgType"

\* C23: the constant of a bool field is false when its text is the integer
\* 0 and true when it is a non-zero integer.
C23_BoolConstant ==
    (Len(msgDef) = 1 /\ Len(Lines) > 0) =>
        \A k \in BoolConstants :
            Lines[Len(Lines)] = BoolLine(k) =>
                /\ Parse.err = "nil" \/ Parse.err = "errUnresolvedMsgType"
                /\ ParsedFields[Len(ParsedFields)].Type = "Bool"
                /\ ~ParsedFields[Len(ParsedFields)].Value.nil
                /\ ParsedFields[Len(ParsedFields)].Value.b = (DigitsValue(k) # 0)

(***************************************************************************)
(* The claims about the caller that views, checked under SpecView.         *)
(***************************************************************************)
\* the names of the fields of the primary definition of a header
FieldNames(hdr) ==
    {hdr.MessageDefinition.msgs[1].Fields[f].Name :
        f \in 1..Len(hdr.MessageDefinition.msgs[1].Fields)}

\* two successive messages were viewed into the map, both without an error
TwoMessagesViewed ==
    /\ Len(decoded) = 2
    /\ decoded[1].rec < decoded[2].rec
    /\ decoded[1].res.err = "nil"
    /\ decoded[2].res.err = "nil"

\* C24: when the same map is passed to ViewAs for two successive messages,
\* after the second call it holds the keys of the second message's
\* definition only.
C24_MapClearedPerMessage ==
    TwoMessagesViewed =>
        DOMAIN decoded[2].res.data.v = FieldNames(out[decoded[2].rec].rec.connHdr)

\* the Connection records of the conn id of the record out[j] that were
\* returned before it
RegisteredBefore(j) ==
    {i \in 1..(j - 1) : /\ out[i].rec.kind = "Connection"
                        /\ ConnOf(out[i].rec) = ConnOf(out[j].rec)}

\* the headers that the registry could hold for the conn id of out[j] when
\* out[j] was read: those of the latest Connection record before it
HeadersAt(j) ==
    HeadersOf(out[CHOOSE i \in RegisteredBefore(j) : \A k \in RegisteredBefore(j) : k <= i].rec)

\* C25: a MessageData record keeps the header that was registered for its
\* conn id when it was read: whatever Connection records are read later,
\* ConnectionHeader() returns that header and ViewAs decodes with its
\* definition.
C25_HeaderKept ==
    /\ \A j \in 1..Len(out) :
          out[j].rec.kind = "MessageData" =>
              /\ RegisteredBefore(j) # {}
              /\ MessageDataConnectionHeader(out[j].rec) \in HeadersAt(j)
    /\ \A k \in 1..Len(decoded) :
          \E h \in HeadersAt(decoded[k].rec) :
              decoded[k].res = decodeMessageData(decoded[k].fastMode, h.MessageDefinition.msgs,
                                                 1, decoded[k].raw, decoded[k].data, FALSE)

\* a MessageData record was read, its conn id was then registered again
\* with another definition, and the record was viewed after that
C25_Witness ==
    \E j, i \in 1..Len(out) :
        /\ j < i
        /\ out[j].rec.kind = "MessageData"
        /\ out[i].rec.kind = "Connection"
        /\ ConnOf(out[i].rec) = ConnOf(out[j].rec)
        /\ HeadersOf(out[i].rec) \cap HeadersAt(j) = {}
        /\ conns[ConnOf(out[j].rec)] \in HeadersOf(out[i].rec)
        /\ MessageDataConnectionHeader(out[j].rec) # conns[ConnOf(out[j].rec)]
        /\ \E k \in 1..Len(decoded) :
              /\ decoded[k].rec = j
              /\ decoded[k].at >= i
              /\ decoded[k].res.err = "nil"
              /\ decoded[k].res.data.v # <<>>

(***************************************************************************)
(* The claim about the lengths of a record, checked under SpecFrame.       *)
(***************************************************************************)
\* C26: for every hdrlen and datalen, decodeRecord returns an error or a
\* record; a record that is no Chunk has a Header() of exactly hdrlen bytes
\* and a Data() of exactly datalen bytes.  No sum of lengths wraps around so
\* that a slice of Raw is out of range.
C26_LengthsNeverWrap ==
    Len(result) = 1 =>
        /\ result[1].err # "panic"
        /\ (result[1].err = "nil" /\ result[1].kind # "Chunk") =>
              /\ Header32(result[1]) = [len |-> args.hdrlen, err |-> "nil"]
              /\ Data32(result[1]) = [len |-> args.datalen, err |-> "nil"]

(***************************************************************************)
(* The claim about the slice decoders, checked under SpecSlice.            *)
(***************************************************************************)
\* C27: for every kind wider than a byte and every input, bodies too short
\* for the declared length included, the copying decoder returns the ok
\* flag, the offset and the values of the aliasing decoder.
C27_SlowEqualsFast ==
    Len(result) = 1 =>
        /\ ~result[1].slow.panic
        /\ result[1].slow.ok = result[1].fast.ok
        /\ result[1].slow.off = result[1].fast.off
        /\ result[1].fast.ok => result[1].slow.v = result[1].fast.v

====
